---- MODULE Spec2Model ----
(***************************************************************************)
(* A model of the gen-vulkan code generator of cicada-engine:              *)
(*   - the `depends` expression parser          (parse.rs, Depends)        *)
(*   - the streaming element parser and from_xml (parse.rs, trans.rs)      *)
(*   - the indexed type table                    (repr.rs, Types)          *)
(*   - the emitter                               (emit.rs)                 *)
(*   - the command line and the registry loader  (main.rs, load.rs)        *)
(* and of the window procedure of cicada-window's Windows backend.         *)
(* Strings are sequences of one-character strings, so that splitting,      *)
(* upper-casing and concatenation are computed as the code computes them.  *)
(***************************************************************************)
EXTENDS Integers, Sequences, FiniteSets, TLC

VARIABLES
    \* ---- Depends::from_str -------------------------------------------
    dep_input,      \* the depends attribute string handed to from_str
    dep_result,     \* NoCall, or the Result returned by from_str
    \* ---- TypeInfo helpers of the emitter -----------------------------
    ti_info,        \* the TypeInfo (standard_name, output_name) receiver
    ti_decors,      \* the decorator chain argument
    ti_declared,    \* NoCall, or the tokens returned by decorated_name
    ti_default,     \* NoCall, or the tokens returned by default_value
    ti_scream,      \* NoCall, or the string returned by screaming_name
    \* ---- the indexed registry (repr::Vulkan) and Vulkan::emit --------
    types,          \* repr::Types: items, result_type and the index lists
    features,       \* repr::Features.items
    commands,       \* repr::Commands.items
    inserted,       \* history: the (handle, type) pair of every insert call
    runs,           \* history: the outcome of every run of emit on this value
    member_default, \* NoCall, or a call of StructMember::emit_default and its result
    \* ---- Vulkan::from_xml: parser and linker -------------------------
    stage,          \* "parse", "link" or "returned" / "aborted"
    reader_pos,     \* number of events the EventReader has handed out
    last_event,     \* the event read last
    stack,          \* the open element handlers, innermost last
    registry,       \* create_registry's local `registry: Option<Registry>`
    ret,            \* what from_xml returned
    linker_calls,   \* history: reader positions at which try_from was entered
    document,       \* the events of the input the reader was built on, or NoDocument
    \* ---- main: read_command_line and load_xml_registry ---------------
    cmdline,        \* std::env::args(): the program name and its arguments
    settings,       \* NoCall, or the Result returned by read_command_line
    files,          \* the file system: the content of each file that exists
    fetches,        \* history: the URL and the response of every ureq::get call
    loaded,         \* NoCall, or the Result returned by load_xml_registry
    \* ---- cicada-window, Windows backend: the window procedure --------
    wndproc,        \* the callback registered as the window's lpfnWndProc
    user_data,      \* the window's GWLP_USERDATA slot: 0 or a WindowData pointer
    heap,           \* the WindowData boxes made so far: "live" or "freed" each
    delivered,      \* history: every message delivered and what the callback did
    crashed         \* the process has died in the callback

vars == << dep_input, dep_result,
           ti_info, ti_decors, ti_declared, ti_default, ti_scream,
           types, features, commands, inserted, runs, member_default,
           stage, reader_pos, last_event, stack, registry, ret, linker_calls,
           document,
           cmdline, settings, files, fetches, loaded,
           wndproc, user_data, heap, delivered, crashed >>

dep_vars == << dep_input, dep_result >>
ti_vars  == << ti_info, ti_decors, ti_declared, ti_default, ti_scream >>
vk_vars  == << types, features, commands, inserted, runs, member_default >>
xml_vars == << stage, reader_pos, last_event, stack, registry, ret, linker_calls,
              document >>
load_vars == << cmdline, settings, files, fetches, loaded >>
win_vars == << wndproc, user_data, heap, delivered, crashed >>

\* A result variable before the call it records has been made.
NoCall == [called |-> FALSE]

----------------------------------------------------------------------------
(***************************************************************************)
(* Generic helpers.                                                        *)
(***************************************************************************)

\* All sequences over S of length at most n.
SeqsUpTo(S, n) == UNION { [1..k -> S] : k \in 0..n }

Range(s) == { s[i] : i \in 1..Len(s) }

Min(S) == CHOOSE x \in S : \A y \in S : x <= y

----------------------------------------------------------------------------
(***************************************************************************)
(* parse.rs: the depends expression parser.                                *)
(***************************************************************************)

\* Longest depends string enumerated exhaustively.
MaxDependsLen == 5

\* The characters depends strings are drawn from.
DependsChars == { "A", "B", "C", ",", "+", "(", ")" }

DependsOps == { ",", "+", "(", ")" }

\* The two strings of the specification's boundary cases.
DependsExampleAnd   == << "A", "+", "B", ",", "C" >>
DependsExampleParen == << "(", "A", ",", "B", ")", "+", "C" >>

DependsInputs ==
    SeqsUpTo(DependsChars, MaxDependsLen) \cup { DependsExampleAnd, DependsExampleParen }

\* enum Depends { Feature(String), And(Vec<Depends>), Or(Vec<Depends>) }
Feature(name)    == [kind |-> "Feature", name |-> name, children |-> << >>]
DependsAnd(list) == [kind |-> "And", name |-> << >>, children |-> list]
DependsOr(list)  == [kind |-> "Or",  name |-> << >>, children |-> list]

\* Option<Depends> together with what is left in the Peekable<Chars>.
DependsNone          == [some |-> FALSE, val |-> Feature(<< >>), rest |-> << >>]
DependsSome(v, rest) == [some |-> TRUE, val |-> v, rest |-> rest]

\* chars.clone().position(|ch| ch == '+'): 0-based index of the first '+'
\* in everything that is left, or -1.
PlusPosition(s) ==
    IF \E i \in 1..Len(s) : s[i] = "+"
    THEN Min({ i \in 1..Len(s) : s[i] = "+" }) - 1
    ELSE -1

RECURSIVE parse_or(_), parse_paren(_), parse_and(_)

\* Depends::parse
parse(s) == parse_or(s)

\* Depends::parse_or
parse_or(s) ==
    LET first == parse_paren(s) IN
    IF ~first.some THEN DependsNone
    ELSE IF first.rest = << >> THEN first
    ELSE IF Head(first.rest) = ","
         THEN LET next == parse_or(Tail(first.rest)) IN
              IF ~next.some THEN DependsNone
              ELSE DependsSome(
                     DependsOr(<< first.val >> \o
                               (IF next.val.kind = "Or"
                                THEN next.val.children ELSE << next.val >>)),
                     next.rest)
         ELSE DependsNone

\* Depends::parse_paren
parse_paren(s) ==
    IF s = << >> THEN DependsNone
    ELSE IF Head(s) = "(" THEN parse(Tail(s))
    ELSE parse_and(s)

\* Depends::parse_and
parse_and(s) ==
    LET pos == PlusPosition(s) IN
    IF pos >= 0
    THEN LET head == Feature(SubSeq(s, 1, pos))          \* chars.take(pos)
             next == parse(SubSeq(s, pos + 2, Len(s)))   \* after chars.next()
         IN  IF ~next.some THEN DependsNone
             ELSE DependsSome(
                    DependsAnd(<< head >> \o
                               (IF next.val.kind = "And"
                                THEN next.val.children ELSE << next.val >>)),
                    next.rest)
    ELSE DependsSome(Feature(s), << >>)                  \* chars.collect()

\* impl FromStr for Depends
from_str(s) ==
    LET r == parse(s) IN
    IF r.some THEN [called |-> TRUE, ok |-> TRUE, val |-> r.val]
    ELSE [called |-> TRUE, ok |-> FALSE, val |-> Feature(<< >>)]

\* The names held by the Feature leaves of a tree.
RECURSIVE Leaves(_)
Leaves(t) ==
    IF t.kind = "Feature" THEN { t.name }
    ELSE UNION { Leaves(t.children[i]) : i \in 1..Len(t.children) }

\* ---- the grammar the depends strings are written in --------------------
\* Parenthesis depth in front of position i.
ParenDepth(s, i) ==
    Cardinality({ j \in 1..(i - 1) : s[j] = "(" })
  - Cardinality({ j \in 1..(i - 1) : s[j] = ")" })

TopLevel(s, ch) == { i \in 1..Len(s) : s[i] = ch /\ ParenDepth(s, i) = 0 }

\* s cut at every occurrence of ch outside parentheses.
RECURSIVE SplitTop(_, _)
SplitTop(s, ch) ==
    IF TopLevel(s, ch) = {} THEN << s >>
    ELSE LET i == Min(TopLevel(s, ch)) IN
         << SubSeq(s, 1, i - 1) >> \o SplitTop(SubSeq(s, i + 1, Len(s)), ch)

IsIdentifier(s) == s # << >> /\ Range(s) \cap DependsOps = {}

IsParenthesised(s) ==
    /\ Len(s) >= 2 /\ s[1] = "(" /\ s[Len(s)] = ")"
    /\ \A i \in 2..Len(s) : ParenDepth(s, i) > 0

RECURSIVE GrammarOk(_)
GrammarOk(s) ==
    LET ors  == SplitTop(s, ",")
        ands == SplitTop(s, "+")
    IN  IF Len(ors) > 1 THEN \A i \in 1..Len(ors) : GrammarOk(ors[i])
        ELSE IF Len(ands) > 1 THEN \A i \in 1..Len(ands) : GrammarOk(ands[i])
        ELSE IF IsParenthesised(s) THEN GrammarOk(SubSeq(s, 2, Len(s) - 1))
        ELSE IsIdentifier(s)

\* ',' is OR, '+' is AND and binds tighter, a parenthesised group is one operand.
RECURSIVE GrammarTree(_)
GrammarTree(s) ==
    LET ors  == SplitTop(s, ",")
        ands == SplitTop(s, "+")
    IN  IF Len(ors) > 1
        THEN DependsOr([i \in 1..Len(ors) |-> GrammarTree(ors[i])])
        ELSE IF Len(ands) > 1
        THEN DependsAnd([i \in 1..Len(ands) |-> GrammarTree(ands[i])])
        ELSE IF IsParenthesised(s) THEN GrammarTree(SubSeq(s, 2, Len(s) - 1))
        ELSE Feature(s)

DependsInit ==
    /\ dep_input \in DependsInputs
    /\ dep_result = NoCall

\* AttributeMapExt::try_get::<Depends> on an attribute that is present: the
\* value parsed, or BadAttrib(element, attrib, value).
try_get(element, attrib, value) ==
    IF from_str(value).ok
    THEN [ok |-> TRUE, val |-> from_str(value).val, error |-> "None",
          element |-> "", attrib |-> "", value |-> << >>]
    ELSE [ok |-> FALSE, val |-> Feature(<< >>), error |-> "BadAttrib",
          element |-> element, attrib |-> attrib, value |-> value]

\* s.parse::<Depends>() as made by AttributeMapExt::try_get
FromStr ==
    /\ ~dep_result.called
    /\ dep_result' = from_str(dep_input)
    /\ UNCHANGED << dep_input, ti_vars, vk_vars, xml_vars, load_vars, win_vars >>

----------------------------------------------------------------------------
(***************************************************************************)
(* emit.rs: impl TypeInfo -- decorated_name, screaming_name, default_value *)
(***************************************************************************)

\* Longest decorator chain and longest generated output name enumerated.
MaxDecors  == 3
MaxNameLen == 3

LowerAlpha == << "a", "b", "c", "d", "e", "f", "g", "h", "i", "j", "k", "l", "m",
                 "n", "o", "p", "q", "r", "s", "t", "u", "v", "w", "x", "y", "z" >>
UpperAlpha == << "A", "B", "C", "D", "E", "F", "G", "H", "I", "J", "K", "L", "M",
                 "N", "O", "P", "Q", "R", "S", "T", "U", "V", "W", "X", "Y", "Z" >>

\* char::is_ascii_uppercase
is_ascii_uppercase(ch) == ch \in Range(UpperAlpha)

\* char::to_ascii_uppercase, and str::to_ascii_uppercase
CharToUpper(ch) ==
    IF ch \in Range(LowerAlpha)
    THEN UpperAlpha[CHOOSE i \in 1..26 : LowerAlpha[i] = ch]
    ELSE ch

to_ascii_uppercase(s) == [i \in 1..Len(s) |-> CharToUpper(s[i])]

\* str::split(pred): the pieces between the characters that satisfy pred;
\* the matching characters themselves are in no piece.
RECURSIVE SplitUpper(_)
SplitUpper(s) ==
    IF \E i \in 1..Len(s) : is_ascii_uppercase(s[i])
    THEN LET i == Min({ j \in 1..Len(s) : is_ascii_uppercase(s[j]) }) IN
         << SubSeq(s, 1, i - 1) >> \o SplitUpper(SubSeq(s, i + 1, Len(s)))
    ELSE << s >>

\* [String]::join(sep)
RECURSIVE Join(_, _)
Join(parts, sep) ==
    IF Len(parts) = 0 THEN << >>
    ELSE IF Len(parts) = 1 THEN parts[1]
    ELSE parts[1] \o sep \o Join(Tail(parts), sep)

\* enum Decor
Decors == { "Const", "ConstPtr", "MutPtr" }

\* Tokens of a proc_macro2::TokenStream.
Ident(name) == [tok |-> "ident", text |-> name]
Punct(p)    == [tok |-> "punct", text |-> << p >>]
Lit(text)   == [tok |-> "lit", text |-> text]
Path(p)     == [tok |-> "path", text |-> << p >>]

Str_VkStructureType == << "V", "k", "S", "t", "r", "u", "c", "t", "u", "r", "e",
                          "T", "y", "p", "e" >>
Str_StructureType   == SubSeq(Str_VkStructureType, 3, 15)
Str_VkApplicationInfo == << "V", "k", "A", "p", "p", "l", "i", "c", "a", "t", "i",
                            "o", "n", "I", "n", "f", "o" >>
Str_ApplicationInfo == SubSeq(Str_VkApplicationInfo, 3, 17)
Str_APPLICATION_INFO == << "A", "P", "P", "L", "I", "C", "A", "T", "I", "O", "N",
                           "_", "I", "N", "F", "O" >>

\* TypeInfo (the fields the helpers read)
TypeInfo(standard, output) == [standard_name |-> standard, output_name |-> output]

\* TypeInfo::decorated_name
RECURSIVE DecorateRev(_, _)
DecorateRev(res, decors) ==      \* for decor in decors.iter().rev()
    IF decors = << >> THEN res
    ELSE LET decor == decors[Len(decors)]
             init  == SubSeq(decors, 1, Len(decors) - 1)
         IN  DecorateRev(
               CASE decor = "Const"    -> res
                 [] decor = "ConstPtr" -> << Punct("*"), Ident(<< "const" >>) >> \o res
                 [] decor = "MutPtr"   -> << Punct("*"), Ident(<< "mut" >>) >> \o res,
               init)

decorated_name(self, decors) == DecorateRev(<< Ident(self.output_name) >>, decors)

\* TypeInfo::screaming_name
screaming_name(self) ==
    LET parts == SplitUpper(self.output_name) IN
    Join([i \in 1..Len(parts) |-> to_ascii_uppercase(parts[i])], << "_" >>)

NullTokens     == << Path("std::ptr::null"), Punct("()") >>
NullMutTokens  == << Path("std::ptr::null_mut"), Punct("()") >>
DefaultTokens  == << Path("Default::default"), Punct("()") >>
StructureTypeTokens(variant) == << Path("vk::StructureType"), Punct("::"), Ident(variant) >>

\* TypeInfo::default_value
default_value(self, decors) ==
    LET last == IF decors = << >> THEN "None" ELSE decors[Len(decors)] IN
    CASE last = "ConstPtr" -> NullTokens
      [] last = "MutPtr"   -> NullMutTokens
      [] OTHER ->
           IF self.standard_name = Str_VkStructureType
           THEN StructureTypeTokens(screaming_name(self))
           ELSE DefaultTokens

\* The characters generated output names are built from.
NameChars == { "A", "I", "n" }

OutputNames ==
    { n \in SeqsUpTo(NameChars, MaxNameLen) : n # << >> }
    \cup { Str_ApplicationInfo }

TypeInfos ==
    { TypeInfo(<< "V", "k" >> \o n, n) : n \in OutputNames }
    \cup { TypeInfo(Str_VkStructureType, Str_StructureType) }

DecorChains == SeqsUpTo(Decors, MaxDecors)

TypeInfoInit ==
    /\ ti_info \in TypeInfos
    /\ ti_decors \in DecorChains
    /\ ti_declared = NoCall
    /\ ti_default = NoCall
    /\ ti_scream = NoCall

CallDecoratedName ==
    /\ ~ti_declared.called
    /\ ti_declared' = [called |-> TRUE, tokens |-> decorated_name(ti_info, ti_decors)]
    /\ UNCHANGED << ti_info, ti_decors, ti_default, ti_scream >>
    /\ UNCHANGED << dep_vars, vk_vars, xml_vars, load_vars, win_vars >>

CallDefaultValue ==
    /\ ~ti_default.called
    /\ ti_default' = [called |-> TRUE, tokens |-> default_value(ti_info, ti_decors)]
    /\ UNCHANGED << ti_info, ti_decors, ti_declared, ti_scream >>
    /\ UNCHANGED << dep_vars, vk_vars, xml_vars, load_vars, win_vars >>

CallScreamingName ==
    /\ ~ti_scream.called
    /\ ti_scream' = [called |-> TRUE, name |-> screaming_name(ti_info)]
    /\ UNCHANGED << ti_info, ti_decors, ti_declared, ti_default >>
    /\ UNCHANGED << dep_vars, vk_vars, xml_vars, load_vars, win_vars >>

----------------------------------------------------------------------------
(***************************************************************************)
(* repr.rs: the indexed registry.                                          *)
(***************************************************************************)

\* Largest number of Types::insert calls explored.
MaxTypes == 3

\* enum TypeBody (the variant tags)
TypeBodies == { "Include", "Define", "Imported", "Base", "Enum", "Bitmask",
                "Struct", "Union", "FnPtr" }

Str_VkResult == << "V", "k", "R", "e", "s", "u", "l", "t" >>
Str_VkFlags  == << "V", "k", "F", "l", "a", "g", "s" >>
Str_VkFoo    == << "V", "k", "F", "o", "o" >>
Str_VkBar    == << "V", "k", "B", "a", "r" >>
Str_VkUni    == << "V", "k", "U", "n", "i" >>
Str_uint32_t == << "u", "i", "n", "t", "3", "2", "_", "t" >>
Str_u32      == << "u", "3", "2" >>
Str_VkBaz    == << "V", "k", "B", "a", "z" >>
Str_2d       == << "2", "d" >>
Str_sType    == << "s", "T", "y", "p", "e" >>
Str_s_type   == << "s", "_", "t", "y", "p", "e" >>

\* Option<handle>: a handle is a NonZeroUsize, so 0 stands for None.
NoHandle == 0

\* struct StructMember / struct DecorType
StructMember(standard, output, handle, decors) ==
    [standard_name |-> standard, output_name |-> output,
     decor_type |-> [handle |-> handle, decors |-> decors]]

\* struct Type { head: TypeHead, body: TypeBody }
Type(standard, output, feature, body, members) ==
    [head |-> [standard_name |-> standard, output_name |-> output, feature |-> feature],
     body |-> [kind |-> body, members |-> members]]

\* The types handed to Types::insert.
TypeSamples ==
    { Type(Str_VkStructureType, Str_StructureType, NoHandle, "Enum", << >>),
      Type(Str_VkResult, SubSeq(Str_VkResult, 3, 8), NoHandle, "Enum", << >>),
      Type(Str_VkFlags, SubSeq(Str_VkFlags, 3, 7), NoHandle, "Bitmask", << >>),
      Type(Str_uint32_t, Str_u32, NoHandle, "Imported", << >>),
      Type(Str_VkUni, SubSeq(Str_VkUni, 3, 5), NoHandle, "Union", << >>),
      Type(Str_VkFoo, SubSeq(Str_VkFoo, 3, 5), 1, "Struct", << >>),
      Type(Str_VkBar, SubSeq(Str_VkBar, 3, 5), NoHandle, "Struct", << >>),
      Type(Str_VkApplicationInfo, Str_ApplicationInfo, NoHandle, "Struct",
           << StructMember(Str_sType, Str_s_type, 1, << >>) >>),
      Type(Str_VkBaz, SubSeq(Str_VkBaz, 3, 5), NoHandle, "Struct",
           << StructMember(Str_2d, Str_2d, 1, << >>) >>) }

\* #[derive(Default)] struct Types
EmptyTypes ==
    [items |-> << >>, result_type |-> NoHandle, struct_types |-> << >>,
     union_types |-> << >>, enum_types |-> << >>, bitmask_types |-> << >>]

\* HashMap::insert
MapInsert(map, key, value) ==
    [k \in DOMAIN map \cup { key } |-> IF k = key THEN value ELSE map[k]]

\* next_handle computed from the table size alone, NonZeroUsize::new(len)
\* falling back to MIN: the handle of the newest entry, not a fresh one.
next_handle_stale(self) ==
    IF DOMAIN self.items = {} THEN 1 ELSE Cardinality(DOMAIN self.items)

\* Types::next_handle.  NonZeroUsize::MIN is 1; saturating_add saturates at
\* usize::MAX, which no table size reaches.
next_handle(self) == 1 + Cardinality(DOMAIN self.items)

\* Types::get (NoType stands for None)
NoType == Type(<< >>, << >>, NoHandle, "None", << >>)
TypesGet(self, handle) ==
    IF handle \in DOMAIN self.items THEN self.items[handle] ELSE NoType

\* Types::insert without the test for the name VkResult.
InsertIndex_by_body(self, handle, ty) ==
    CASE ty.body.kind = "Enum"    -> [self EXCEPT !.enum_types = Append(@, handle)]
      [] ty.body.kind = "Bitmask" -> [self EXCEPT !.bitmask_types = Append(@, handle)]
      [] ty.body.kind = "Struct"  -> [self EXCEPT !.struct_types = Append(@, handle)]
      [] OTHER -> self

\* The index lists after Types::insert has looked at the new type.
InsertIndex(self, handle, ty) ==
    IF ty.head.standard_name = Str_VkResult
    THEN [self EXCEPT !.result_type = handle]
    ELSE CASE ty.body.kind = "Enum"    -> [self EXCEPT !.enum_types = Append(@, handle)]
           [] ty.body.kind = "Bitmask" -> [self EXCEPT !.bitmask_types = Append(@, handle)]
           [] ty.body.kind = "Struct"  -> [self EXCEPT !.struct_types = Append(@, handle)]
           [] OTHER -> self

\* Types::insert: the table after the call; the handle returned is next_handle(self).
TypesInsert(self, ty) ==
    LET handle == next_handle(self) IN
    [InsertIndex(self, handle, ty) EXCEPT !.items = MapInsert(self.items, handle, ty)]

\* impl Vulkan: has_result, has_enums, has_structs, has_unions, has_commands
has_result(vk)   == vk.types.result_type # NoHandle
has_enums(vk)    == vk.types.enum_types # << >>
has_structs(vk)  == vk.types.struct_types # << >>
has_unions(vk)   == vk.types.union_types # << >>
has_commands(vk) == DOMAIN vk.commands # {}

\* The Vulkan value the variables hold.
Vk == [types |-> types, features |-> features, commands |-> commands]

\* Features.items and Commands.items are public maps with no insert method;
\* the values a caller can have put there.
Str_VK_KHR_x == << "V", "K", "_", "K", "H", "R", "_", "x" >>
Str_KHR_x    == SubSeq(Str_VK_KHR_x, 4, 8)
FeatureTables ==
    { << >>,
      << [header |-> [standard_name |-> Str_VK_KHR_x, output_name |-> Str_KHR_x]] >> }
CommandTables ==
    { << >>,
      << [info |-> [standard_name |-> << "v", "k", "F" >>, output_name |-> << "F" >>]] >> }

----------------------------------------------------------------------------
(***************************************************************************)
(* emit.rs: Vulkan::emit.                                                  *)
(***************************************************************************)

\* Number of runs of emit on one Vulkan value that are compared.
MaxRuns == 2

\* Result<_, EmitError>
NoError == [kind |-> "None", a |-> << >>, b |-> << >>]
BadStructMember(struct, member) == [kind |-> "BadStructMember", a |-> struct, b |-> member]
SynError == [kind |-> "Syn", a |-> << >>, b |-> << >>]

Digits == { "0", "1", "2", "3", "4", "5", "6", "7", "8", "9" }
IdentStart == Range(LowerAlpha) \cup Range(UpperAlpha) \cup { "_" }

\* What proc_macro2::Ident::new accepts; it panics on anything else.
IsValidIdent(s) ==
    /\ s # << >>
    /\ s[1] \in IdentStart
    /\ \A i \in 2..Len(s) : s[i] \in IdentStart \cup Digits

\* TypeInfo::output_feature: the tokens of Some(..), << >> for None
\* (the callers apply unwrap_or_default).
output_feature(self, vk) ==
    IF self.feature # NoHandle /\ self.feature \in DOMAIN vk.features
    THEN << Punct("#"), Ident(<< "cfg" >>), Ident(<< "feature" >>), Punct("="),
            Lit(vk.features[self.feature].header.output_name) >>
    ELSE << >>

MemberPanic == [panic |-> TRUE, err |-> NoError, tokens |-> << >>]
MemberError(error) == [panic |-> FALSE, err |-> error, tokens |-> << >>]
MemberTokens(tokens) == [panic |-> FALSE, err |-> NoError, tokens |-> tokens]

\* Ident::new(&self.output_name, ..) and vk.types.get(handle).ok_or(..)?, the
\* common head of StructMember::emit_defn and StructMember::emit_default.
MemberLookup(self, vk, type_info, tokens) ==
    IF ~IsValidIdent(self.output_name) THEN MemberPanic
    ELSE IF self.decor_type.handle \notin DOMAIN vk.types.items
    THEN MemberError(BadStructMember(type_info.standard_name, self.standard_name))
    ELSE tokens

\* StructMember::emit_defn
MemberEmitDefn(self, vk, type_info) ==
    MemberLookup(self, vk, type_info,
        IF ~IsValidIdent(TypesGet(vk.types, self.decor_type.handle).head.output_name)
        THEN MemberPanic
        ELSE MemberTokens(
               << Ident(<< "pub" >>), Ident(self.output_name), Punct(":") >>
               \o decorated_name(TypesGet(vk.types, self.decor_type.handle).head,
                                 self.decor_type.decors)
               \o << Punct(",") >>))

\* StructMember::emit_default
MemberEmitDefault(self, vk, type_info) ==
    MemberLookup(self, vk, type_info,
        MemberTokens(
          << Ident(self.output_name), Punct(":") >>
          \o default_value(TypesGet(vk.types, self.decor_type.handle).head,
                           self.decor_type.decors)
          \o << Punct(",") >>))

\* One round of the closure of the fold in StructType::emit_defn and
\* emit_impl_default: a failing member replaces the accumulator by its error,
\* a later member that succeeds leaves an error in place.
FoldStep(acc, one) ==
    IF one.panic \/ one.err # NoError THEN one
    ELSE IF acc.err # NoError THEN acc
    ELSE [acc EXCEPT !.tokens = @ \o one.tokens \o << Punct(",") >>]

\* self.members.iter().fold(Ok(TokenStream::new()), ..); a panic ends everything.
RECURSIVE FoldMembers(_, _, _, _, _)
FoldMembers(acc, members, vk, type_info, defn) ==
    IF members = << >> \/ acc.panic THEN acc
    ELSE FoldMembers(
           FoldStep(acc, IF defn THEN MemberEmitDefn(Head(members), vk, type_info)
                         ELSE MemberEmitDefault(Head(members), vk, type_info)),
           Tail(members), vk, type_info, defn)

FoldStart == MemberTokens(<< >>)

\* A token list cut at its commas.
RECURSIVE SplitComma(_)
SplitComma(tokens) ==
    IF \E i \in 1..Len(tokens) : tokens[i] = Punct(",")
    THEN LET i == Min({ j \in 1..Len(tokens) : tokens[j] = Punct(",") }) IN
         << SubSeq(tokens, 1, i - 1) >> \o SplitComma(SubSeq(tokens, i + 1, Len(tokens)))
    ELSE << tokens >>

\* syn: a named field `pub name: Type`
IsFieldDefn(p) ==
    Len(p) >= 4 /\ p[1] = Ident(<< "pub" >>) /\ p[2].tok = "ident" /\ p[3] = Punct(":")

\* syn: a field value `name: expr`
IsFieldValue(p) ==
    Len(p) >= 3 /\ p[1].tok = "ident" /\ p[2] = Punct(":")

\* syn: one element of the braces of a struct definition (defn) or of a
\* struct expression.
ElementOk(p, defn) == IF defn THEN IsFieldDefn(p) ELSE IsFieldValue(p)

\* syn: a comma-punctuated list, trailing comma allowed, no empty element.
Punctuated(tokens, defn) ==
    /\ \A i \in 1..(Len(SplitComma(tokens)) - 1) : ElementOk(SplitComma(tokens)[i], defn)
    /\ \/ SplitComma(tokens)[Len(SplitComma(tokens))] = << >>
       \/ ElementOk(SplitComma(tokens)[Len(SplitComma(tokens))], defn)

\* An item handed to syn::parse2 and prettyplease::unparse.
Item(kind, gate, name, body) == [item |-> kind, gate |-> gate, name |-> name, body |-> body]

\* syn::parse2::<syn::File> on the tokens of one item.
SynParses(it) ==
    CASE it.item = "struct" ->
           it.name.tok = "ident" /\ Punctuated(it.body, TRUE)
      [] it.item = "impl_default" ->
           it.name.tok \in { "ident", "path" } /\ Punctuated(it.body, FALSE)
      [] OTHER -> TRUE

Emitted(written) == [panic |-> FALSE, err |-> NoError, written |-> written]
EmitFailed(error, written) == [panic |-> FALSE, err |-> error, written |-> written]
EmitPanic(written) == [panic |-> TRUE, err |-> NoError, written |-> written]

\* The tail of StructType::emit_defn and emit_impl_default: the `?` on the
\* fold, Ident::new on the struct name (emit_defn only), syn::parse2 and unparse.
StructItemResult(folded, name_ok, tokens) ==
    IF folded.panic THEN EmitPanic(<< >>)
    ELSE IF folded.err # NoError THEN EmitFailed(folded.err, << >>)
    ELSE IF ~name_ok THEN EmitPanic(<< >>)
    ELSE IF ~SynParses(tokens) THEN EmitFailed(SynError, << >>)
    ELSE Emitted(<< tokens >>)

\* StructType::emit_defn
StructEmitDefn(self, vk, type_info) ==
    StructItemResult(
        FoldMembers(FoldStart, self.members, vk, type_info, TRUE),
        IsValidIdent(type_info.output_name),
        Item("struct", output_feature(type_info, vk), Ident(type_info.output_name),
             FoldMembers(FoldStart, self.members, vk, type_info, TRUE).tokens))

\* StructType::emit_impl_default: `impl Default for #type_name` interpolates
\* a &str, which quote! turns into a string literal.
StructEmitImplDefault(self, vk, type_info) ==
    StructItemResult(
        FoldMembers(FoldStart, self.members, vk, type_info, FALSE),
        TRUE,
        Item("impl_default", output_feature(type_info, vk), Lit(type_info.output_name),
             FoldMembers(FoldStart, self.members, vk, type_info, FALSE).tokens))

\* One round of the loop of emit_structs_module_body: what has been written
\* after emit_defn and write_struct_impls, and whether the loop goes on.
StructRound(written, defn, impl) ==
    IF defn.panic THEN EmitPanic(written)
    ELSE IF defn.err # NoError THEN EmitFailed(defn.err, written)
    ELSE IF impl.panic THEN EmitPanic(written \o defn.written)
    ELSE IF impl.err # NoError THEN EmitFailed(impl.err, written \o defn.written)
    ELSE Emitted(written \o defn.written \o impl.written)

\* Vulkan::emit_structs_module_body, with write_struct_impls: `order` is the
\* order in which the HashMap iterator yields the struct entries.
RECURSIVE EmitStructsBody(_, _, _)
EmitStructsBody(vk, order, done) ==
    IF order = << >> \/ done.panic \/ done.err # NoError THEN done
    ELSE EmitStructsBody(vk, Tail(order),
           StructRound(done.written,
                       StructEmitDefn(vk.types.items[Head(order)].body, vk,
                                      vk.types.items[Head(order)].head),
                       StructEmitImplDefault(vk.types.items[Head(order)].body, vk,
                                             vk.types.items[Head(order)].head)))

\* root_module_head with the tests for result and structs exchanged.
root_module_head_unordered(vk) ==
    (IF has_commands(vk) THEN << "commands" >> ELSE << >>)
    \o (IF has_enums(vk) THEN << "enums" >> ELSE << >>)
    \o (IF has_structs(vk) THEN << "structs" >> ELSE << >>)
    \o (IF has_result(vk) THEN << "result" >> ELSE << >>)
    \o (IF has_unions(vk) THEN << "unions" >> ELSE << >>)

\* Vulkan::root_module_head: the submodules declared, << >> for None.
root_module_head(vk) ==
    (IF has_commands(vk) THEN << "commands" >> ELSE << >>)
    \o (IF has_enums(vk) THEN << "enums" >> ELSE << >>)
    \o (IF has_result(vk) THEN << "result" >> ELSE << >>)
    \o (IF has_structs(vk) THEN << "structs" >> ELSE << >>)
    \o (IF has_unions(vk) THEN << "unions" >> ELSE << >>)

\* mod_defs: `mod NAME;` for each submodule, in the order of the list.
ModDefs(submodules) ==
    [i \in 1..Len(submodules) |-> Item("mod", << >>, Ident(<< submodules[i] >>), << >>)]

\* mod_uses: `pub use self::{ NAME::*, ... };`, the braces holding
\* `NAME :: * ,` for each submodule in the order of the list.
ModUses(submodules) ==
    Item("use", << >>, Ident(<< "self" >>),
         [j \in 1..(4 * Len(submodules)) |->
            CASE j % 4 = 1 -> Ident(<< submodules[(j + 3) \div 4] >>)
              [] j % 4 = 2 -> Punct("::")
              [] j % 4 = 3 -> Punct("*")
              [] OTHER     -> Punct(",")])

\* The content emit_root_module writes to mod.rs: the declarations and the
\* re-export, or nothing when root_module_head returns None.
RootModuleContent(vk) ==
    IF root_module_head(vk) = << >> THEN << >>
    ELSE ModDefs(root_module_head(vk)) \o << ModUses(root_module_head(vk)) >>

\* The struct entries of the type table (the filter_map of
\* emit_structs_module_body) and the orders a HashMap may yield them in.
StructHandles(vk) ==
    { h \in DOMAIN vk.types.items : vk.types.items[h].body.kind = "Struct" }

Orders(S) ==
    { o \in [1..Cardinality(S) -> S] : \A i, j \in 1..Cardinality(S) : o[i] = o[j] => i = j }

\* emit without the has_enums test around emit_enums_module.
CreatedFiles_untested(vk, failed) ==
    { "mod.rs" }
    \cup (IF has_commands(vk) THEN { "cmds.rs" } ELSE {})
    \cup { "enums.rs" }
    \cup (IF has_result(vk) THEN { "result.rs" } ELSE {})
    \cup (IF has_structs(vk) THEN { "structs.rs" } ELSE {})
    \cup (IF has_unions(vk) /\ ~failed THEN { "unions.rs" } ELSE {})

\* The files emit has created with File::create when it returns: mod.rs by
\* emit_root_module, then cmds.rs, enums.rs, result.rs and structs.rs by the
\* emit_*_module calls in this order, each under its has_* test; unions.rs only
\* when emit_structs_module has not returned early with `?` (or panicked).
CreatedFiles(vk, failed) ==
    { "mod.rs" }
    \cup (IF has_commands(vk) THEN { "cmds.rs" } ELSE {})
    \cup (IF has_enums(vk) THEN { "enums.rs" } ELSE {})
    \cup (IF has_result(vk) THEN { "result.rs" } ELSE {})
    \cup (IF has_structs(vk) THEN { "structs.rs" } ELSE {})
    \cup (IF has_unions(vk) /\ ~failed THEN { "unions.rs" } ELSE {})

\* The value Vulkan::emit returns and the files it leaves in output_dir with
\* what was written to each (a BufWriter flushes when it is dropped).
EmitResult(vk, body) ==
    [result |-> IF body.panic THEN "Panic" ELSE IF body.err # NoError THEN "Err" ELSE "Ok",
     err    |-> body.err,
     files  |-> [f \in CreatedFiles(vk, body.panic \/ body.err # NoError) |->
                   CASE f = "mod.rs"     -> RootModuleContent(vk)
                     [] f = "structs.rs" -> body.written
                     [] OTHER            -> << >>]]

\* Vulkan::emit, for one iteration order of the type table.
emit(vk, order) ==
    EmitResult(vk, IF has_structs(vk) THEN EmitStructsBody(vk, order, Emitted(<< >>))
                   ELSE Emitted(<< >>))

\* An empty type table, in a registry without features and commands or in one
\* that has both.
VulkanInit ==
    /\ types = EmptyTypes
    /\ features \in FeatureTables
    /\ commands \in CommandTables
    /\ (features = << >>) <=> (commands = << >>)
    /\ inserted = << >>
    /\ runs = << >>
    /\ member_default = NoCall

\* A call of Types::insert on the table being built.
Insert(ty) ==
    /\ runs = << >>
    /\ Len(inserted) < MaxTypes
    /\ types' = TypesInsert(types, ty)
    /\ inserted' = Append(inserted, [handle |-> next_handle(types), ty |-> ty])
    /\ UNCHANGED << features, commands, runs, member_default >>
    /\ UNCHANGED << dep_vars, ti_vars, xml_vars, load_vars, win_vars >>

\* One run of Vulkan::emit on the value built so far.
Emit(order) ==
    /\ Len(runs) < MaxRuns
    /\ runs' = Append(runs, emit(Vk, order))
    /\ UNCHANGED << types, features, commands, inserted, member_default >>
    /\ UNCHANGED << dep_vars, ti_vars, xml_vars, load_vars, win_vars >>

\* StructMember::emit_default applied to member i of the struct with handle h.
CallEmitDefault(h, i) ==
    /\ ~member_default.called
    /\ runs = << >>
    /\ h \in StructHandles(Vk)
    /\ i \in 1..Len(types.items[h].body.members)
    /\ member_default' =
         [called |-> TRUE, struct |-> h, member |-> i,
          result |-> MemberEmitDefault(types.items[h].body.members[i], Vk,
                                       types.items[h].head)]
    /\ UNCHANGED << types, features, commands, inserted, runs >>
    /\ UNCHANGED << dep_vars, ti_vars, xml_vars, load_vars, win_vars >>

----------------------------------------------------------------------------
(***************************************************************************)
(* parse.rs: the streaming element parser, and Vulkan::from_xml.           *)
(***************************************************************************)

\* Number of events the reader hands out before the input is cut off.
MaxEvents == 7

\* HashMap<String, String> of an element's attributes.
NoAttribs == [a \in {} |-> ""]
Restrict(map, keys) == [a \in (DOMAIN map) \cap keys |-> map[a]]
Without(map, keys)  == [a \in (DOMAIN map) \ keys |-> map[a]]

\* The element names and attribute maps the documents are built from.
ElementNames == { "registry", "comment", "types", "type", "member", "name", "bogus" }

AttribMaps ==
    { NoAttribs,
      "comment" :> "c",
      "bogus" :> "v",
      "name" :> "n",
      "category" :> "struct",
      "category" :> "enum",
      "category" :> "weird",
      ("category" :> "struct") @@ ("bogus" :> "v") }

Texts == { << "x" >>, << "*" >> }

\* xml::reader::XmlEvent, and the Err a reader returns on malformed input.
\* "Misc" is whitespace, a comment, a processing instruction, CDATA or
\* StartDocument: every event the handlers do not name.
StartElement(name, attribs) == [ev |-> "StartElement", name |-> name, attribs |-> attribs, text |-> << >>]
EndElement(name) == [ev |-> "EndElement", name |-> name, attribs |-> NoAttribs, text |-> << >>]
Characters(text) == [ev |-> "Characters", name |-> "", attribs |-> NoAttribs, text |-> text]
EndDocument == [ev |-> "EndDocument", name |-> "", attribs |-> NoAttribs, text |-> << >>]
MiscEvent   == [ev |-> "Misc", name |-> "", attribs |-> NoAttribs, text |-> << >>]
ReaderError == [ev |-> "Error", name |-> "", attribs |-> NoAttribs, text |-> << >>]
NoEvent     == [ev |-> "None", name |-> "", attribs |-> NoAttribs, text |-> << >>]

\* enum ParseError, as parse.rs constructs it.
ParseError(kind, a, b, c, text) == [kind |-> kind, a |-> a, b |-> b, c |-> c, text |-> text]
BadStart(element)        == ParseError("BadStart", element, "", "", << >>)
BadEnd(name)             == ParseError("BadEnd", name, "", "", << >>)
BadChild(parent, child)  == ParseError("BadChild", parent, child, "", << >>)
BadCont(text)            == ParseError("BadCont", "", "", "", text)
BadAttrib(el, attr, val) == ParseError("BadAttrib", el, attr, val, << >>)
UnreadAttrib(el, attr, val) == ParseError("UnreadAttrib", el, attr, val, << >>)
ReqAttrib(el, attr)      == ParseError("ReqAttrib", el, attr, "", << >>)
DocEnd    == ParseError("DocEnd", "", "", "", << >>)
EmptyReg  == ParseError("EmptyReg", "", "", "", << >>)
XmlRead   == ParseError("XmlRead", "", "", "", << >>)
TypeNotFound(ty) == ParseError("TypeNotFound", "", "", "", ty)
NoParseError == ParseError("None", "", "", "", << >>)

\* The element handlers that implement GenericParse.
GenericHandlers == { "Registry", "Comment", "Types", "StructType", "UnionType",
                     "EnumType", "ImportedType", "Member" }

\* The handlers of the other type categories.
TypeHandlers == { "IncludeType", "DefineType", "BaseType", "HandleType", "BitmaskType",
                  "FnPtrType" }

\* The handlers of <feature>, <require> / <remove> and their items.
RequireEnumHandlers == { "RequireEnumValue", "RequireEnumOffset", "RequireEnumBit",
                         "RequireEnumAlias" }
RequireHandlers == { "Feature", "Require", "Remove", "RequireType", "RequireCommand",
                     "RequireFeature" } \cup RequireEnumHandlers

\* The handlers of <sync> and <syncaccess>.
SyncHandlers == { "Sync", "SyncAccess", "SyncAccessSupport", "SyncAccessEquivalent" }

\* The handlers of <commands>, a defined <command>, <proto> and <param>.
CommandHandlers == { "Commands", "DefinedCommand", "CommandProto", "CommandParam" }

\* The children of <registry> and <sync> whose handlers are left out here: no
\* input enumerated below holds one of them.
RegistryItemsLeftOut == { "platforms", "tags", "enums", "extensions", "formats",
                          "spirvextensions", "spirvcapabilities", "videocodecs" }
SyncItemsLeftOut == { "syncstage", "syncpipeline" }
CommandItemsLeftOut == { "implicitexternsyncparams" }

\* GenericParse::NAME
HandlerName(h) ==
    CASE h = "Registry" -> "registry"
      [] h = "Comment"  -> "comment"
      [] h = "Types"    -> "types"
      [] h = "Member"   -> "member"
      [] h \in { "StructType", "UnionType", "EnumType", "ImportedType" } -> "type"
      [] h \in TypeHandlers -> "type"
      [] h = "Feature" -> "feature"
      [] h = "Require" -> "require"
      [] h = "Remove"  -> "remove"
      [] h = "RequireType" -> "type"
      [] h \in RequireEnumHandlers -> "enum"
      [] h = "RequireCommand" -> "command"
      [] h = "RequireFeature" -> "feature"
      [] h = "Sync" -> "sync"
      [] h = "SyncAccess" -> "syncaccess"
      [] h = "SyncAccessSupport" -> "syncsupport"
      [] h = "SyncAccessEquivalent" -> "syncequivalent"
      [] h = "Commands" -> "commands"
      [] h = "DefinedCommand" -> "command"
      [] h = "CommandProto" -> "proto"
      [] h = "CommandParam" -> "param"

\* TypeCommon::parse_attribs
TypeCommonAttribs == { "name", "requires", "deprecated", "api", "alias", "comment" }

\* RequireEnumCommon::parse_attribs
RequireEnumCommonAttribs == { "name", "extends", "deprecated", "api", "protect", "comment" }

\* GenericParse::parse_attribs: the attributes the handler removes from the map.
Consumed(h) ==
    CASE h = "Registry" -> { "comment" }
      [] h = "Comment"  -> {}
      [] h = "Types"    -> { "comment" }
      [] h = "StructType" ->
           TypeCommonAttribs \cup { "allowduplicate", "returnedonly", "structextends" }
      [] h = "UnionType" -> TypeCommonAttribs \cup { "returnedonly" }
      [] h = "EnumType" -> TypeCommonAttribs
      [] h = "ImportedType" -> TypeCommonAttribs
      [] h = "Member" ->
           { "api", "values", "optional", "deprecated", "noautovalidity", "externsync",
             "limittype", "len", "altlen", "objecttype", "selection", "selector",
             "comment" }
      [] h \in { "IncludeType", "DefineType", "BaseType", "FnPtrType" } -> TypeCommonAttribs
      [] h = "HandleType"  -> TypeCommonAttribs \cup { "parent", "objtypeenum" }
      [] h = "BitmaskType" -> TypeCommonAttribs \cup { "bitvalues" }
      [] h = "Feature" -> { "name", "number", "api", "depends", "comment" }
      [] h = "Require" -> { "depends", "api", "comment" }
      [] h = "Remove"  -> { "reasonlink", "comment" }
      [] h = "RequireType" -> { "name", "comment" }
      [] h = "RequireEnumValue"  -> RequireEnumCommonAttribs \cup { "value" }
      [] h = "RequireEnumOffset" -> RequireEnumCommonAttribs \cup { "extnumber", "offset", "dir" }
      [] h = "RequireEnumBit"    -> RequireEnumCommonAttribs \cup { "extnumber", "bitpos" }
      [] h = "RequireEnumAlias"  -> RequireEnumCommonAttribs \cup { "alias" }
      [] h = "RequireCommand" -> { "name", "comment" }
      [] h = "RequireFeature" -> { "name", "struct", "comment" }
      [] h = "Sync" -> { "comment" }
      [] h = "SyncAccess" -> { "name", "alias" }
      [] h = "SyncAccessSupport" -> { "stage" }
      [] h = "SyncAccessEquivalent" -> { "access" }
      [] h = "Commands" -> { "comment" }
      [] h = "DefinedCommand" ->
           { "api", "successcodes", "errorcodes", "queues", "renderpass", "videocoding",
             "cmdbufferlevel", "tasks", "comment" }
      [] h = "CommandProto" -> { "comment" }
      [] h = "CommandParam" ->
           { "api", "optional", "externsync", "noautovalidity", "len", "altlen", "stride",
             "objecttype", "validstructs", "comment" }

\* AttributeMapExt::req_attrib: the attributes the handler requires, in the
\* order parse_attribs asks for them.
Required(h) ==
    CASE h = "Feature" -> << "name", "number", "api" >>
      [] h = "RequireType" -> << "name" >>
      [] h = "RequireEnumValue" -> << "name" >>
      [] h = "RequireEnumOffset" -> << "name", "offset" >>
      [] h = "RequireEnumBit" -> << "name", "bitpos" >>
      [] h = "RequireEnumAlias" -> << "name", "alias" >>
      [] h = "RequireCommand" -> << "name" >>
      [] h = "RequireFeature" -> << "name", "struct" >>
      [] h = "SyncAccess" -> << "name" >>
      [] h = "SyncAccessSupport" -> << "stage" >>
      [] h = "SyncAccessEquivalent" -> << "access" >>
      [] OTHER -> << >>

\* impl FromStr for Dir, as reached through try_get in
\* RequireEnumOffsetDetails::parse_attribs: the attribute try_get rejects.
\* (No other attribute that a handler parses with try_get or str::parse is
\* part of the inputs enumerated below.)
DirValues == { "+", "-" }
Rejected(h, attribs) ==
    IF h = "RequireEnumOffset" /\ "dir" \in DOMAIN attribs /\ attribs["dir"] \notin DirValues
    THEN { "dir" } ELSE {}

\* Option<T>
OptNone    == [some |-> FALSE, val |-> << >>]
OptSome(v) == [some |-> TRUE, val |-> v]

\* str::split(','): the parts of the attribute values that hold a comma; any
\* other value of the inputs is its own single part.
SplitList(value) ==
    CASE value = "graphics,compute"  -> << "graphics", "compute" >>
      [] value = "primary,secondary" -> << "primary", "secondary" >>
      [] value = "n,null-terminated" -> << "n", "null-terminated" >>
      [] OTHER -> << value >>

\* attribs.remove(a).map(|s| s.split(',').map(..).collect())
SplitAttrib(attribs, a) ==
    IF a \in DOMAIN attribs THEN OptSome(SplitList(attribs[a])) ELSE OptNone

\* DefinedCommand::parse_attribs: the list fields after the assignments have
\* run in order.  queues is assigned from the queues attribute and then again
\* from the cmdbufferlevel attribute; cmd_buffer_level is not assigned and
\* keeps its default None.
DefinedCommandFields(attribs) ==
    [success_codes    |-> SplitAttrib(attribs, "successcodes"),
     error_codes      |-> SplitAttrib(attribs, "errorcodes"),
     queues           |-> SplitAttrib(attribs, "cmdbufferlevel"),
     cmd_buffer_level |-> OptNone,
     tasks            |-> SplitAttrib(attribs, "tasks")]

\* enum Len
NullTerminated    == [len |-> "NullTerminated", a |-> "", b |-> ""]
LenMember(value)  == [len |-> "Member", a |-> value, b |-> ""]
LenNumber(value)  == [len |-> "Number", a |-> value, b |-> ""]
LenAlt(len, alt)  == [len |-> "Alt", a |-> len, b |-> alt]

\* value.starts_with(|c: char| c.is_alphabetic()), on the parts of the inputs.
StartsAlphabetic(value) == value \in { "n", "null-terminated" }

\* impl FromStr for Len
LenFromStr(part) ==
    IF part = "null-terminated" THEN NullTerminated
    ELSE IF StartsAlphabetic(part) THEN LenMember(part)
    ELSE LenNumber(part)

\* Len::from_attribs(attribs.remove("len"), attribs.remove("altlen"))
LenFromAttribs(attribs) ==
    IF "len" \in DOMAIN attribs
    THEN IF "altlen" \in DOMAIN attribs
         THEN OptSome(<< LenAlt(attribs["len"], attribs["altlen"]) >>)
         ELSE OptSome([i \in 1..Len(SplitList(attribs["len"])) |->
                         LenFromStr(SplitList(attribs["len"])[i])])
    ELSE OptNone

\* The fields parse_attribs fills that are more than the attribute removed.
NoFields == [f \in {} |-> OptNone]
ParsedFields(h, attribs) ==
    CASE h = "DefinedCommand" -> DefinedCommandFields(attribs)
      [] h \in { "Member", "CommandParam" } -> [f \in { "len" } |-> LenFromAttribs(attribs)]
      [] OTHER -> NoFields

\* A parsed node, and the frame of the handler that is building it.  `unread`
\* is what the handler left in the attribute map of its StartElement.
Node(kind, element, item, attrs, unread) ==
    [kind |-> kind, element |-> element, item |-> item, attrs |-> attrs,
     unread |-> unread, items |-> << >>, text |-> << >>, name |-> << >>,
     proto |-> << >>, fields |-> ParsedFields(kind, attrs)]

NoNode == Node("None", "", "", NoAttribs, NoAttribs)

\* The outcome of entering a handler: an error, or the frame it opens.
Failed(error) == [ok |-> FALSE, error |-> error, frame |-> NoNode]
Opened(frame) == [ok |-> TRUE, error |-> NoParseError, frame |-> frame]

\* impl<T: GenericParse + Default> Parse for T, up to the event loop.  The
\* attribute reported by UnreadAttrib is whichever the HashMap yields first.
GenericEnter(h, element, attribs) ==
    IF element # HandlerName(h) THEN { Failed(BadStart(element)) }
    ELSE IF \E i \in 1..Len(Required(h)) : Required(h)[i] \notin DOMAIN attribs
    THEN { Failed(ReqAttrib(element,
             Required(h)[Min({ i \in 1..Len(Required(h)) :
                                Required(h)[i] \notin DOMAIN attribs })])) }
    ELSE IF Rejected(h, attribs) # {}
    THEN { Failed(BadAttrib(element, a, attribs[a])) : a \in Rejected(h, attribs) }
    ELSE LET rest == Without(attribs, Consumed(h)) IN
         IF DOMAIN rest # {}
         THEN { Failed(UnreadAttrib(element, a, rest[a])) : a \in DOMAIN rest }
         ELSE { Opened(Node(h, element, "", Restrict(attribs, Consumed(h)), rest)) }

\* GenericItem::parse, up to the event loop: the attribute map is not looked at.
GenericItemEnter(element, attribs) ==
    IF element \in { "name", "type", "enum", "comment" }
    THEN { Opened(Node("GenericItem", element,
                       CASE element = "name" -> "Name"
                         [] element = "type" -> "Type"
                         [] element = "enum" -> "Enum"
                         [] element = "comment" -> "Comment",
                       NoAttribs, attribs)) }
    ELSE { Failed(BadStart(element)) }

\* Type::parse without the removal of the category attribute.
TypeEnter_keeps_category(element, attribs) ==
    IF "category" \in DOMAIN attribs
    THEN LET category == attribs["category"]
         IN  CASE category = "include"  -> GenericEnter("IncludeType", element, attribs)
               [] category = "define"   -> GenericEnter("DefineType", element, attribs)
               [] category = "basetype" -> GenericEnter("BaseType", element, attribs)
               [] category = "handle"   -> GenericEnter("HandleType", element, attribs)
               [] category = "bitmask"  -> GenericEnter("BitmaskType", element, attribs)
               [] category = "enum"     -> GenericEnter("EnumType", element, attribs)
               [] category = "funcpointer" -> GenericEnter("FnPtrType", element, attribs)
               [] category = "struct"   -> GenericEnter("StructType", element, attribs)
               [] category = "union"    -> GenericEnter("UnionType", element, attribs)
               [] OTHER -> { Failed(BadAttrib(element, "category", category)) }
    ELSE GenericEnter("ImportedType", element, attribs)

\* impl Parse for Type: dispatch on the category attribute.
TypeEnter(element, attribs) ==
    IF "category" \in DOMAIN attribs
    THEN LET category == attribs["category"]
             rest     == Without(attribs, { "category" })
         IN  CASE category = "include"  -> GenericEnter("IncludeType", element, rest)
               [] category = "define"   -> GenericEnter("DefineType", element, rest)
               [] category = "basetype" -> GenericEnter("BaseType", element, rest)
               [] category = "handle"   -> GenericEnter("HandleType", element, rest)
               [] category = "bitmask"  -> GenericEnter("BitmaskType", element, rest)
               [] category = "enum"     -> GenericEnter("EnumType", element, rest)
               [] category = "funcpointer" -> GenericEnter("FnPtrType", element, rest)
               [] category = "struct"   -> GenericEnter("StructType", element, rest)
               [] category = "union"    -> GenericEnter("UnionType", element, rest)
               [] OTHER -> { Failed(BadAttrib(element, "category", category)) }
    ELSE GenericEnter("ImportedType", element, attribs)

\* impl Parse for RequireEnum: dispatch on the attributes present.
RequireEnumEnter(element, attribs) ==
    IF "alias" \in DOMAIN attribs THEN GenericEnter("RequireEnumAlias", element, attribs)
    ELSE IF "offset" \in DOMAIN attribs THEN GenericEnter("RequireEnumOffset", element, attribs)
    ELSE IF "bitpos" \in DOMAIN attribs THEN GenericEnter("RequireEnumBit", element, attribs)
    ELSE GenericEnter("RequireEnumValue", element, attribs)

\* impl Parse for RequireItem
RequireItemEnter(element, attribs) ==
    CASE element = "type"    -> GenericEnter("RequireType", element, attribs)
      [] element = "enum"    -> RequireEnumEnter(element, attribs)
      [] element = "command" -> GenericEnter("RequireCommand", element, attribs)
      [] element = "feature" -> GenericEnter("RequireFeature", element, attribs)
      [] OTHER -> GenericEnter("Comment", element, attribs)

\* impl Parse for SyncAccessItem
SyncAccessItemEnter(element, attribs) ==
    CASE element = "comment" -> GenericEnter("Comment", element, attribs)
      [] element = "syncsupport" -> GenericEnter("SyncAccessSupport", element, attribs)
      [] element = "syncequivalent" -> GenericEnter("SyncAccessEquivalent", element, attribs)
      [] OTHER -> { Failed(BadChild("syncstage", element)) }

\* The handlers whose parse_child is GenericItem::parse and whose parse_text
\* pushes GenericItem::text.
MixedHandlers == { "Member", "DefineType", "BaseType", "HandleType", "BitmaskType",
                   "FnPtrType", "CommandProto", "CommandParam" }

\* impl Parse for Command: dispatch on the alias attribute.  AliasCommand is
\* left out: no input enumerated below holds an aliased command.
CommandEnter(element, attribs) ==
    IF "alias" \in DOMAIN attribs THEN {}
    ELSE GenericEnter("DefinedCommand", element, attribs)

\* parse_child of the handler h, on StartElement(element, attribs):
\* RegistryItem::parse, TypesItem::parse, StructItem::parse, Member::parse_child,
\* the default of GenericParse, and the StartElement arm of GenericItem::parse.
ParseChild(frame, element, attribs) ==
    CASE frame.kind = "Registry" ->
           CASE element = "comment" -> GenericEnter("Comment", element, attribs)
             [] element = "types"   -> GenericEnter("Types", element, attribs)
             [] element = "feature" -> GenericEnter("Feature", element, attribs)
             [] element = "sync"    -> GenericEnter("Sync", element, attribs)
             [] element = "commands" -> GenericEnter("Commands", element, attribs)
             [] element \in RegistryItemsLeftOut -> {}
             [] OTHER -> { Failed(BadChild("registry", element)) }
      [] frame.kind = "Types" ->
           CASE element = "comment" -> GenericEnter("Comment", element, attribs)
             [] element = "type"    -> TypeEnter(element, attribs)
             [] OTHER -> { Failed(BadChild("types", element)) }
      [] frame.kind \in { "StructType", "UnionType" } ->
           CASE element = "comment" -> GenericEnter("Comment", element, attribs)
             [] element = "member"  -> GenericEnter("Member", element, attribs)
             [] OTHER -> { Failed(BadChild("type", element)) }
      [] frame.kind \in MixedHandlers -> GenericItemEnter(element, attribs)
      [] frame.kind = "Feature" ->
           CASE element = "comment" -> GenericEnter("Comment", element, attribs)
             [] element = "require" -> GenericEnter("Require", element, attribs)
             [] element = "remove"  -> GenericEnter("Remove", element, attribs)
             [] OTHER -> { Failed(BadChild("feature", element)) }
      [] frame.kind \in { "Require", "Remove" } -> RequireItemEnter(element, attribs)
      [] frame.kind = "Sync" ->
           CASE element = "syncaccess" -> GenericEnter("SyncAccess", element, attribs)
             [] element \in SyncItemsLeftOut -> {}
             [] OTHER -> { Failed(BadChild("sync", element)) }
      [] frame.kind = "SyncAccess" -> SyncAccessItemEnter(element, attribs)
      [] frame.kind = "Commands" ->
           CASE element = "comment" -> GenericEnter("Comment", element, attribs)
             [] element = "command" -> CommandEnter(element, attribs)
             [] OTHER -> { Failed(BadChild("commands", element)) }
      [] frame.kind = "DefinedCommand" ->
           CASE element = "proto"   -> GenericEnter("CommandProto", element, attribs)
             [] element = "comment" -> GenericEnter("Comment", element, attribs)
             [] element = "param"   -> GenericEnter("CommandParam", element, attribs)
             [] element \in CommandItemsLeftOut -> {}
             [] OTHER -> { Failed(BadChild("command", element)) }
      [] frame.kind = "GenericItem" -> { Failed(BadChild(frame.element, element)) }
      [] OTHER -> { Failed(BadChild(HandlerName(frame.kind), element)) }

\* The parent after a child handler has returned Ok(child).
PushChild(parent, child) ==
    IF parent.kind \in MixedHandlers \ { "CommandProto", "CommandParam" }
       /\ child.item = "Name"
    THEN [parent EXCEPT !.items = Append(@, child), !.name = child.text]
    ELSE IF parent.kind = "DefinedCommand" /\ child.kind = "CommandProto"
    THEN [parent EXCEPT !.proto = << child >>]
    ELSE [parent EXCEPT !.items = Append(@, child)]

\* GenericItem::text
TextItem(text) == [Node("GenericItem", "", "Text", NoAttribs, NoAttribs) EXCEPT !.text = text]

Top == stack[Len(stack)]
Below == SubSeq(stack, 1, Len(stack) - 1)

\* The reader's input when every event stream up to MaxEvents is explored.
NoDocument == << >>

\* from_xml entered on a reader that has handed out nothing.
XmlStart ==
    /\ stage = "parse"
    /\ reader_pos = 0
    /\ last_event = NoEvent
    /\ stack = << >>
    /\ registry = NoNode
    /\ ret = [kind |-> "None", pos |-> 0, error |-> NoParseError]
    /\ linker_calls = << >>

XmlInit == XmlStart /\ document = NoDocument

\* ---- the documents a reader is built on ----------------------------------
\* The events of <name attribs> children </name>, and of a whole document
\* whose root element is <registry>.
Elem(name, attribs, children) ==
    << StartElement(name, attribs) >> \o children \o << EndElement(name) >>
TextElem(name, text) == Elem(name, NoAttribs, << Characters(text) >>)
RegistryDoc(children) == Elem("registry", NoAttribs, children) \o << EndDocument >>

Str_VkMissing == << "V", "k", "M", "i", "s", "s", "i", "n", "g" >>

\* <types><type category=.. ../></types> for every category, none, and one
\* that does not exist, with and without further attributes.
TypeCategories == { "include", "define", "basetype", "handle", "bitmask", "enum",
                    "funcpointer", "struct", "union" }
CategoryAttribs == { NoAttribs } \cup { "category" :> c : c \in TypeCategories \cup { "weird" } }
TypeAttribs == { NoAttribs, "name" :> "VkFoo", "parent" :> "p", "bogus" :> "v" }
TypeDocs ==
    { RegistryDoc(Elem("types", NoAttribs, Elem("type", c @@ a, << >>))) :
        c \in CategoryAttribs, a \in TypeAttribs }

\* A struct VkFoo, and a struct VkBar with one member `<type>T</type> <name>x</name>`.
MemberTypeNames == { Str_VkFoo, Str_uint32_t, Str_VkMissing }
StructDocs ==
    { RegistryDoc(Elem("types", NoAttribs,
        Elem("type", ("category" :> "struct") @@ ("name" :> "VkFoo"), << >>)
        \o Elem("type", ("category" :> "struct") @@ ("name" :> "VkBar"),
             Elem("member", NoAttribs,
                  TextElem("type", t) \o << Characters(<< " " >>) >>
                  \o TextElem("name", << "x" >>))))) :
        t \in MemberTypeNames }

\* <feature><require><enum ../></require></feature> for the enum variants.
FeatureAttribs == ("name" :> "F") @@ ("number" :> "1.0") @@ ("api" :> "vulkan")
EnumName == "name" :> "E"
EnumExtends == "extends" :> "VkResult"
RequireEnumAttribs ==
    { EnumName @@ EnumExtends @@ ("offset" :> o) @@ n @@ d :
        o \in { "0", "3" },
        n \in { NoAttribs, "extnumber" :> "4" },
        d \in { NoAttribs, "dir" :> "+", "dir" :> "-", "dir" :> "x" } }
    \cup { EnumName @@ ("value" :> "1"), EnumName @@ ("bitpos" :> "2"),
           EnumName @@ ("alias" :> "A"), "offset" :> "3", EnumName @@ ("bogus" :> "v") }
FeatureDocs ==
    { RegistryDoc(Elem("feature", FeatureAttribs,
        Elem(r, NoAttribs, Elem("enum", e, << >>)))) :
        r \in { "require", "remove" }, e \in RequireEnumAttribs }
    \cup { RegistryDoc(Elem("feature", FeatureAttribs,
             Elem("require", NoAttribs, Elem(n, a, << >>)))) :
             n \in { "type", "command", "feature", "comment" },
             a \in { "name" :> "n", ("name" :> "n") @@ ("struct" :> "s"), NoAttribs } }

\* <sync><syncaccess name=..> with a supported child, and a <comment> only.
SyncDocs ==
    { RegistryDoc(Elem("sync", NoAttribs, Elem("syncaccess", "name" :> "a", c))) :
        c \in { << >>, Elem("syncsupport", "stage" :> "s", << >>),
                Elem("syncequivalent", "access" :> "b", << >>) } }

\* <registry></registry>, <registry><comment>x</comment></registry>, and no
\* element at all.
EmptyRegistryDoc == RegistryDoc(<< >>)
CommentDocs == { RegistryDoc(TextElem("comment", << "x" >>)), << EndDocument >>,
                 EmptyRegistryDoc }

\* The bodies of a <member>, <proto> and <param>: text runs and name, type,
\* enum and comment children in several orders.
MixedBodies ==
    { << >>,
      << Characters(<< "c" >>) >> \o TextElem("type", Str_VkFoo)
          \o << Characters(<< "*" >>) >> \o TextElem("name", << "x" >>),
      TextElem("name", << "x" >>) \o << Characters(<< "[" >>) >>
          \o TextElem("enum", << "N" >>) \o << Characters(<< "]" >>) >>,
      << Characters(<< "c" >>), Characters(<< "*" >>) >> \o TextElem("comment", << "x" >>),
      Elem("type", NoAttribs, << Characters(<< "V" >>), Characters(<< "k" >>) >>)
          \o TextElem("name", << "x" >>) \o TextElem("name", << "y" >>) }

\* The attributes of a <command>, and the len / altlen attributes of a
\* <member> or <param>.
CommandAttribs ==
    { NoAttribs, "queues" :> "graphics,compute", "queues" :> "graphics",
      "cmdbufferlevel" :> "primary,secondary",
      ("queues" :> "graphics,compute") @@ ("cmdbufferlevel" :> "primary,secondary") }
LenAttribs ==
    { NoAttribs, "len" :> "n", "len" :> "2", "len" :> "n,null-terminated",
      ("len" :> "n") @@ ("altlen" :> "m"), "altlen" :> "m" }

\* <types><type category="struct" name="VkBar"><member ..>body</member></type></types>
MemberDoc(attribs, body) ==
    RegistryDoc(Elem("types", NoAttribs,
        Elem("type", ("category" :> "struct") @@ ("name" :> "VkBar"),
             Elem("member", attribs, body))))

\* <commands><command ..><proto>..</proto><param ..>..</param></command></commands>
CommandDoc(attribs, proto, param_attribs, param) ==
    RegistryDoc(Elem("commands", NoAttribs,
        Elem("command", attribs,
             Elem("proto", NoAttribs, proto) \o Elem("param", param_attribs, param))))

MemberDocs ==
    { MemberDoc(NoAttribs, b) : b \in MixedBodies }
    \cup { MemberDoc(l, TextElem("name", << "x" >>)) : l \in LenAttribs }
CommandDocs ==
    { CommandDoc(NoAttribs, p, NoAttribs, TextElem("name", << "x" >>)) : p \in MixedBodies }
    \cup { CommandDoc(NoAttribs, TextElem("name", << "f" >>), NoAttribs, b) : b \in MixedBodies }
    \cup { CommandDoc(a, TextElem("name", << "f" >>), NoAttribs, << >>) : a \in CommandAttribs }
    \cup { CommandDoc(NoAttribs, TextElem("name", << "f" >>), l, << >>) : l \in LenAttribs }

WellFormedDocs == TypeDocs \cup StructDocs \cup FeatureDocs \cup SyncDocs \cup CommentDocs
                  \cup MemberDocs \cup CommandDocs

\* The documents that are not what the handlers expect: an element that is
\* no part of the grammar put in after event i, the input cut off after
\* event i (the reader reports the end of the document, or an error), an end
\* tag of another name, and an event no handler names (whitespace, a comment).
WithBogusChild(d, i) ==
    SubSeq(d, 1, i) \o Elem("bogus", NoAttribs, << >>) \o SubSeq(d, i + 1, Len(d))
CutOff(d, i, e) == SubSeq(d, 1, i) \o << e >>
WithWrongEnd(d, i) == [d EXCEPT ![i] = EndElement("bogus")]
WithMisc(d, i) == SubSeq(d, 1, i) \o << MiscEvent >> \o SubSeq(d, i + 1, Len(d))

\* The documents whose variations are explored.
VariedDocs == StructDocs \cup SyncDocs \cup CommentDocs
    \cup { CommandDoc(NoAttribs, TextElem("name", << "f" >>), NoAttribs,
                      TextElem("name", << "x" >>)) }
    \cup { d \in TypeDocs : d[3].attribs \in
             { "category" :> "define", "category" :> "include", "category" :> "enum" } }
    \cup { d \in FeatureDocs : d[4].attribs \in
             { EnumName @@ EnumExtends @@ ("offset" :> "3"), "name" :> "n" } }

Documents ==
    WellFormedDocs
    \cup UNION { { WithBogusChild(d, i) : i \in 1..(Len(d) - 1) } : d \in VariedDocs }
    \cup UNION { { CutOff(d, i, e) : i \in 0..(Len(d) - 2) } :
                   d \in VariedDocs, e \in { EndDocument, ReaderError } }
    \cup UNION { { WithWrongEnd(d, i) : i \in { j \in 1..Len(d) : d[j].ev = "EndElement" } } :
                   d \in VariedDocs }
    \cup UNION { { WithMisc(d, i) : i \in 0..(Len(d) - 1) } : d \in VariedDocs }

\* The event the reader hands out next.
NextEvent == IF reader_pos < Len(document) THEN document[reader_pos + 1] ELSE NoEvent

XmlDocInit == XmlStart /\ document \in Documents

\* reader.next() hands out event e: the next event of the document, or any
\* event when the input is left open.
Reads(e) ==
    /\ stage = "parse"
    /\ IF document = NoDocument THEN reader_pos < MaxEvents
       ELSE reader_pos < Len(document) /\ e = document[reader_pos + 1]
    /\ reader_pos' = reader_pos + 1
    /\ last_event' = e
    /\ UNCHANGED << document, dep_vars, ti_vars, vk_vars, load_vars, win_vars >>

\* from_xml returns Err(Error::Parse(reader.position(), error)).
Fails(error) ==
    /\ stage' = "returned"
    /\ ret' = [kind |-> "Parse", pos |-> reader_pos', error |-> error]
    /\ UNCHANGED << stack, registry, linker_calls >>

Continues(new_stack, new_registry) ==
    /\ stack' = new_stack
    /\ registry' = new_registry
    /\ UNCHANGED << stage, ret, linker_calls >>

ReadStartElement(name, attribs) ==
    /\ Reads(StartElement(name, attribs))
    /\ \E out \in (IF stack = << >>
                   THEN GenericEnter("Registry", name, attribs)
                   ELSE ParseChild(Top, name, attribs)) :
          IF out.ok THEN Continues(Append(stack, out.frame), registry)
          ELSE Fails(out.error)

ReadEndElement(name) ==
    /\ Reads(EndElement(name))
    /\ IF stack = << >> THEN Fails(BadEnd(name))
       ELSE IF Top.kind = "GenericItem" /\ name # Top.element
            THEN Continues(stack, registry)
       ELSE IF Top.kind # "GenericItem" /\ name # HandlerName(Top.kind)
            THEN Fails(BadEnd(name))
       ELSE IF Len(stack) = 1 THEN Continues(<< >>, Top)
       ELSE Continues(
              [Below EXCEPT ![Len(stack) - 1] = PushChild(@, Top)], registry)

\* ReadCharacters with a parse_text that pushes nothing for mixed content.
ReadCharacters_unpushed(text) ==
    /\ Reads(Characters(text))
    /\ IF stack = << >> THEN Fails(BadCont(text))
       ELSE CASE Top.kind \in { "Comment", "GenericItem" } ->
                   Continues([stack EXCEPT ![Len(stack)].text = @ \o text], registry)
              [] Top.kind \in MixedHandlers \cup { "IncludeType" } ->
                   Continues(stack, registry)
              [] OTHER -> Fails(BadCont(text))

ReadCharacters(text) ==
    /\ Reads(Characters(text))
    /\ IF stack = << >> THEN Fails(BadCont(text))
       ELSE CASE Top.kind \in { "Comment", "GenericItem" } ->
                   Continues([stack EXCEPT ![Len(stack)].text = @ \o text], registry)
              [] Top.kind \in MixedHandlers \cup { "IncludeType" } ->
                   Continues([stack EXCEPT ![Len(stack)].items = Append(@, TextItem(text))],
                             registry)
              [] OTHER -> Fails(BadCont(text))

ReadEndDocument ==
    /\ Reads(EndDocument)
    /\ IF stack # << >> THEN Fails(DocEnd)
       ELSE IF registry = NoNode THEN Fails(EmptyReg)
       ELSE /\ stage' = "link"
            /\ UNCHANGED << stack, registry, ret, linker_calls >>

ReadMisc ==
    /\ Reads(MiscEvent)
    /\ Continues(stack, registry)

ReadError ==
    /\ Reads(ReaderError)
    /\ Fails(XmlRead)

\* struct EnumValue {}: the numeric values of enumerants that a Vulkan value
\* carries.  The struct has no field, so there are none.
EnumValues(vk) == {}

\* trans.rs: impl TryFrom<parse::Registry> for repr::Vulkan.  The body is
\* todo!(), which panics.
try_from(value) == [kind |-> "Panic", pos |-> 0, error |-> NoParseError]

\* from_xml hands the Registry to try_into().
Link ==
    /\ stage = "link"
    /\ linker_calls' = Append(linker_calls, reader_pos)
    /\ ret' = try_from(registry)
    /\ stage' = IF ret'.kind = "Panic" THEN "aborted" ELSE "returned"
    /\ UNCHANGED << reader_pos, last_event, stack, registry, document >>
    /\ UNCHANGED << dep_vars, ti_vars, vk_vars, load_vars, win_vars >>

----------------------------------------------------------------------------
(***************************************************************************)
(* main (main.rs): read_command_line, then load_xml_registry (load.rs).    *)
(* Paths, URLs and file contents are atomic strings.                       *)
(***************************************************************************)

MaxArgs == 3

DefaultPath == "vk.xml"
DefaultUrl  == "https://raw.githubusercontent.com/KhronosGroup/Vulkan-Docs/refs/heads/main/xml/vk.xml"

Settings(local_path, force_update, registry_url) ==
    [local_path |-> local_path, force_update |-> force_update,
     registry_url |-> registry_url]

\* The `while let Some(arg) = args.next()` loop from argument i on.
RECURSIVE ReadArgs(_, _, _)
ReadArgs(args, i, acc) ==
    IF i > Len(args) THEN [called |-> TRUE, ok |-> TRUE, value |-> acc, arg |-> ""]
    ELSE CASE args[i] = "--path" ->
                IF i + 1 > Len(args)
                THEN [called |-> TRUE, ok |-> FALSE, value |-> acc, arg |-> args[i]]
                ELSE ReadArgs(args, i + 2, [acc EXCEPT !.local_path = args[i + 1]])
           [] args[i] = "--url" ->
                IF i + 1 > Len(args)
                THEN [called |-> TRUE, ok |-> FALSE, value |-> acc, arg |-> args[i]]
                ELSE ReadArgs(args, i + 2, [acc EXCEPT !.registry_url = args[i + 1]])
           [] args[i] = "--update" ->
                ReadArgs(args, i + 1, [acc EXCEPT !.force_update = TRUE])
           [] OTHER -> ReadArgs(args, i + 1, acc)

read_command_line ==
    /\ cmdline # << >> /\ settings = NoCall
    /\ settings' = ReadArgs(cmdline, 1, Settings(DefaultPath, FALSE, DefaultUrl))
    /\ UNCHANGED << cmdline, files, fetches, loaded >>
    /\ UNCHANGED << dep_vars, ti_vars, vk_vars, xml_vars, win_vars >>

\* What the server answers for a URL, when it answers.
Response(url) == IF url = DefaultUrl THEN "khronos" ELSE "mirror"

LoadOk(content) == [called |-> TRUE, ok |-> TRUE, reads |-> content, before |-> files]
LoadErr         == [called |-> TRUE, ok |-> FALSE, reads |-> "", before |-> files]

\* load_xml_registry with the update flag left out of the test.
load_xml_registry_if_missing ==
    /\ settings # NoCall /\ settings.ok /\ loaded = NoCall
    /\ IF settings.value.local_path \notin DOMAIN files
       THEN \E answered \in BOOLEAN, written \in BOOLEAN :
              /\ fetches' = Append(fetches, [url |-> settings.value.registry_url,
                                             ok |-> answered])
              /\ IF answered /\ written
                 THEN /\ files' = (settings.value.local_path
                                      :> Response(settings.value.registry_url)) @@ files
                      /\ loaded' = LoadOk(files'[settings.value.local_path])
                 ELSE /\ files' = files
                      /\ loaded' = LoadErr
       ELSE /\ loaded' = LoadOk(files[settings.value.local_path])
            /\ UNCHANGED << files, fetches >>
    /\ UNCHANGED << cmdline, settings >>
    /\ UNCHANGED << dep_vars, ti_vars, vk_vars, xml_vars, win_vars >>

\* The request is answered or fails, and the write succeeds or fails; either
\* failure is returned and leaves the file as it was.
load_xml_registry ==
    /\ settings # NoCall /\ settings.ok /\ loaded = NoCall
    /\ IF settings.value.force_update \/ settings.value.local_path \notin DOMAIN files
       THEN \E answered \in BOOLEAN, written \in BOOLEAN :
              /\ fetches' = Append(fetches, [url |-> settings.value.registry_url,
                                             ok |-> answered])
              /\ IF answered /\ written
                 THEN /\ files' = (settings.value.local_path
                                      :> Response(settings.value.registry_url)) @@ files
                      /\ loaded' = LoadOk(files'[settings.value.local_path])
                 ELSE /\ files' = files
                      /\ loaded' = LoadErr
       ELSE /\ loaded' = LoadOk(files[settings.value.local_path])
            /\ UNCHANGED << files, fetches >>
    /\ UNCHANGED << cmdline, settings >>
    /\ UNCHANGED << dep_vars, ti_vars, vk_vars, xml_vars, win_vars >>

\* The command lines: the program name and up to MaxArgs arguments.
ArgWords == { "--path", "--url", "--update", "p.xml" }
RECURSIVE ArgLists(_)
ArgLists(n) ==
    IF n = 0 THEN { << "gen-vulkan" >> }
    ELSE ArgLists(n - 1)
         \cup { Append(a, w) : a \in { b \in ArgLists(n - 1) : Len(b) = n }, w \in ArgWords }

\* The files that exist when the program starts.
FileSystems ==
    { [f \in fs |-> "old"] : fs \in SUBSET { DefaultPath, "p.xml" } }

LoadInit ==
    /\ cmdline \in ArgLists(MaxArgs)
    /\ settings = NoCall
    /\ files \in FileSystems
    /\ fetches = << >>
    /\ loaded = NoCall

----------------------------------------------------------------------------
(***************************************************************************)
(* The window procedure of cicada-window's Windows backend:                *)
(* generic_window_callback (event.rs) and common_window_callback           *)
(* (event_loop.rs).  A pointer is the index of its box in heap; 0 is null. *)
(***************************************************************************)

MaxMessages == 4

Messages == { "WM_NCCREATE", "WM_NCDESTROY", "WM_MOVE", "WM_SIZE", "WM_GETMINMAXINFO" }

\* One delivery: the message, the slot as GetWindowLongPtrW returned it, the
\* arm of the match taken, whether the arm used a box already freed, and the
\* Dispatch callback the inner callback called.
Delivery(msg, slot, arm, fault, callback) ==
    [msg |-> msg, slot |-> slot, arm |-> arm, fault |-> fault, callback |-> callback]

\* What the arms `(WM_NCDESTROY, data)` and `(_, data)` do to a box that has
\* been freed before.
FreeFault(data) == IF heap[data] = "freed" THEN "double_free" ELSE "none"
UseFault(data)  == IF heap[data] = "freed" THEN "use_after_free" ELSE "none"

\* event.rs.  Its WindowData has no fields: the Box owns no memory, and
\* dropping it again or forming a reference to it after the drop goes on.
generic_window_callback(msg) ==
    /\ wndproc = "generic_window_callback" /\ ~crashed /\ Len(delivered) < MaxMessages
    /\ CASE msg = "WM_NCCREATE" /\ user_data = 0 ->
              /\ heap' = Append(heap, "live")
              /\ user_data' = Len(heap) + 1
              /\ delivered' = Append(delivered,
                                     Delivery(msg, user_data, "create", "none", "none"))
         [] msg # "WM_NCCREATE" /\ user_data = 0 ->
              /\ delivered' = Append(delivered,
                                     Delivery(msg, user_data, "default", "none", "none"))
              /\ UNCHANGED << heap, user_data >>
         [] msg = "WM_NCDESTROY" /\ user_data # 0 ->
              /\ heap' = [heap EXCEPT ![user_data] = "freed"]
              /\ delivered' = Append(delivered,
                                     Delivery(msg, user_data, "destroy",
                                              FreeFault(user_data), "none"))
              /\ UNCHANGED user_data
         [] OTHER ->
              /\ delivered' = Append(delivered,
                                     Delivery(msg, user_data, "inner",
                                              UseFault(user_data), "none"))
              /\ UNCHANGED << heap, user_data >>
    /\ UNCHANGED << wndproc, crashed >>
    /\ UNCHANGED << dep_vars, ti_vars, vk_vars, xml_vars, load_vars >>

\* inner_common_window_callback: the callback of Dispatch called for msg when
\* data.dispatch.upgrade() gives the Dispatch.
DispatchCallback(msg, upgraded) ==
    IF ~upgraded THEN "none"
    ELSE CASE msg = "WM_MOVE" -> "on_move"
           [] msg = "WM_SIZE" -> "on_resize"
           [] OTHER -> "none"

\* event_loop.rs.  Its WindowData holds a Weak: freeing the box twice or
\* reading it after the free is undefined behaviour, of which the process
\* may die or go on with whatever the memory holds.
common_window_callback(msg) ==
    /\ wndproc = "common_window_callback" /\ ~crashed /\ Len(delivered) < MaxMessages
    /\ CASE msg = "WM_NCCREATE" /\ user_data = 0 ->
              \E upgraded \in BOOLEAN :
                /\ heap' = Append(heap, "live")
                /\ user_data' = Len(heap) + 1
                /\ delivered' = Append(delivered,
                                       Delivery(msg, user_data, "create", "none",
                                                DispatchCallback(msg, upgraded)))
                /\ crashed' = FALSE
         [] msg # "WM_NCCREATE" /\ user_data = 0 ->
              /\ delivered' = Append(delivered,
                                     Delivery(msg, user_data, "default", "none", "none"))
              /\ UNCHANGED << heap, user_data, crashed >>
         [] msg = "WM_NCDESTROY" /\ user_data # 0 ->
              /\ heap' = [heap EXCEPT ![user_data] = "freed"]
              /\ delivered' = Append(delivered,
                                     Delivery(msg, user_data, "destroy",
                                              FreeFault(user_data), "none"))
              /\ crashed' \in IF FreeFault(user_data) = "none" THEN { FALSE } ELSE BOOLEAN
              /\ UNCHANGED user_data
         [] OTHER ->
              \E upgraded \in BOOLEAN :
                /\ delivered' = Append(delivered,
                                       Delivery(msg, user_data, "inner", UseFault(user_data),
                                                DispatchCallback(msg, upgraded)))
                /\ crashed' \in IF UseFault(user_data) = "none" THEN { FALSE } ELSE BOOLEAN
                /\ UNCHANGED << heap, user_data >>
    /\ UNCHANGED wndproc
    /\ UNCHANGED << dep_vars, ti_vars, vk_vars, xml_vars, load_vars >>

\* A window of a class registered with either callback, before its first
\* message.
WindowInit ==
    /\ wndproc \in { "generic_window_callback", "common_window_callback" }
    /\ user_data = 0
    /\ heap = << >>
    /\ delivered = << >>
    /\ crashed = FALSE

----------------------------------------------------------------------------
(***************************************************************************)
(* The specifications.  Each one runs one part of the program; the         *)
(* variables of the other parts stay at their idle values.                 *)
(***************************************************************************)

DependsIdle == dep_input = << >> /\ dep_result = NoCall

TypeInfoIdle ==
    /\ ti_info = TypeInfo(<< >>, << >>)
    /\ ti_decors = << >>
    /\ ti_declared = NoCall
    /\ ti_default = NoCall
    /\ ti_scream = NoCall

VulkanIdle ==
    /\ types = EmptyTypes
    /\ features = << >>
    /\ commands = << >>
    /\ inserted = << >>
    /\ runs = << >>
    /\ member_default = NoCall

LoadIdle ==
    /\ cmdline = << >>
    /\ settings = NoCall
    /\ files = << >>
    /\ fetches = << >>
    /\ loaded = NoCall

WindowIdle ==
    /\ wndproc = "none"
    /\ user_data = 0
    /\ heap = << >>
    /\ delivered = << >>
    /\ crashed = FALSE

XmlIdle ==
    /\ stage = "idle"
    /\ reader_pos = 0
    /\ last_event = NoEvent
    /\ stack = << >>
    /\ registry = NoNode
    /\ ret = [kind |-> "None", pos |-> 0, error |-> NoParseError]
    /\ linker_calls = << >>
    /\ document = NoDocument

\* Depends::from_str on every bounded depends string.
InitDepends == DependsInit /\ TypeInfoIdle /\ VulkanIdle /\ XmlIdle /\ LoadIdle /\ WindowIdle
NextDepends == FromStr
SpecDepends == InitDepends /\ [][NextDepends]_vars

\* The TypeInfo helpers on every bounded name and decorator chain.
InitTypeInfo == DependsIdle /\ TypeInfoInit /\ VulkanIdle /\ XmlIdle /\ LoadIdle /\ WindowIdle
NextTypeInfo ==
    \/ CallDecoratedName
    \/ CallDefaultValue
    \/ CallScreamingName
SpecTypeInfo == InitTypeInfo /\ [][NextTypeInfo]_vars

\* Building a type table with Types::insert, then emitting it.
InitVulkan == DependsIdle /\ TypeInfoIdle /\ VulkanInit /\ XmlIdle /\ LoadIdle /\ WindowIdle
NextVulkan ==
    \/ \E ty \in TypeSamples : Insert(ty)
    \/ \E order \in Orders(StructHandles(Vk)) : Emit(order)
    \/ \E h \in DOMAIN types.items : \E i \in 1..Len(types.items[h].body.members) :
          CallEmitDefault(h, i)
SpecVulkan == InitVulkan /\ [][NextVulkan]_vars

\* Vulkan::from_xml on every bounded event stream.
InitXml == DependsIdle /\ TypeInfoIdle /\ VulkanIdle /\ XmlInit /\ LoadIdle /\ WindowIdle
NextXml ==
    \/ \E name \in ElementNames, attribs \in AttribMaps : ReadStartElement(name, attribs)
    \/ \E name \in ElementNames : ReadEndElement(name)
    \/ \E text \in Texts : ReadCharacters(text)
    \/ ReadEndDocument
    \/ ReadMisc
    \/ ReadError
    \/ Link
SpecXml == InitXml /\ [][NextXml]_vars

\* Vulkan::from_xml on a reader built on each of the documents.
InitXmlDoc == DependsIdle /\ TypeInfoIdle /\ VulkanIdle /\ XmlDocInit /\ LoadIdle /\ WindowIdle
NextXmlDoc ==
    \/ \E name \in { NextEvent.name }, attribs \in { NextEvent.attribs } :
          ReadStartElement(name, attribs)
    \/ \E name \in { NextEvent.name } : ReadEndElement(name)
    \/ \E text \in { NextEvent.text } : ReadCharacters(text)
    \/ ReadEndDocument
    \/ ReadMisc
    \/ ReadError
    \/ Link
SpecXmlDoc == InitXmlDoc /\ [][NextXmlDoc]_vars

\* main up to the reader it parses: every command line on every file system.
InitLoad == DependsIdle /\ TypeInfoIdle /\ VulkanIdle /\ XmlIdle /\ LoadInit /\ WindowIdle
NextLoad ==
    \/ read_command_line
    \/ load_xml_registry
SpecLoad == InitLoad /\ [][NextLoad]_vars

\* Every sequence of up to MaxMessages messages delivered to one window.
InitWindow == DependsIdle /\ TypeInfoIdle /\ VulkanIdle /\ XmlIdle /\ LoadIdle /\ WindowInit
NextWindow ==
    \/ \E msg \in Messages : generic_window_callback(msg)
    \/ \E msg \in Messages : common_window_callback(msg)
SpecWindow == InitWindow /\ [][NextWindow]_vars

----------------------------------------------------------------------------
(***************************************************************************)
(* The properties.                                                         *)
(***************************************************************************)

\* C1: for every depends string of the grammar, from_str returns the tree in
\* which ',' is OR, '+' is AND and binds tighter and a parenthesised group is
\* one operand, and no Feature leaf holds ',', '+', '(' or ')'.
C1_DependsTree ==
    (dep_result.called /\ GrammarOk(dep_input)) =>
        /\ dep_result.ok
        /\ dep_result.val = GrammarTree(dep_input)
        /\ \A leaf \in Leaves(dep_result.val) : Range(leaf) \cap DependsOps = {}

\* The nodes of a parsed tree.
RECURSIVE Nodes(_)
Nodes(node) == { node } \cup UNION { Nodes(node.items[i]) : i \in 1..Len(node.items) }

\* C2: an element with an attribute its handler does not consume fails with
\* UnreadAttrib before any further event of the element is read: no open
\* handler and no parsed node has an attribute left unread.
C2_AttributeExhaustion ==
    /\ stage = "parse" => \A i \in 1..Len(stack) : DOMAIN stack[i].unread = {}
    /\ \A node \in Nodes(registry) : DOMAIN node.unread = {}

\* C3: two runs of emit on the same Vulkan value leave byte-identical files.
C3_EmitDeterminism ==
    Len(runs) >= 2 => runs[1].files = runs[2].files

\* The declared type in which the last decorator of the chain is the
\* outermost: [Const, ConstPtr, MutPtr] on T is `*mut *const T`.
RECURSIVE WrapOutward(_, _)
WrapOutward(res, decors) ==
    IF decors = << >> THEN res
    ELSE WrapOutward(
           CASE Head(decors) = "Const"    -> res
             [] Head(decors) = "ConstPtr" -> << Punct("*"), Ident(<< "const" >>) >> \o res
             [] Head(decors) = "MutPtr"   -> << Punct("*"), Ident(<< "mut" >>) >> \o res,
           Tail(decors))

\* C4: decorated_name builds the declared type of the chain, so that
\* [Const, ConstPtr, MutPtr] on T gives `*mut *const T`.
C4_DecoratedName ==
    ti_declared.called =>
        ti_declared.tokens = WrapOutward(<< Ident(ti_info.output_name) >>, ti_decors)

\* The outermost pointer of a declared type: "const", "mut", or "none".
OutermostPointer(tokens) ==
    IF Len(tokens) >= 2 /\ tokens[1] = Punct("*") THEN tokens[2].text[1] ELSE "none"

\* C5: the default value matches the outermost decorator of the declared type
\* of the same chain: null() exactly for `*const`, null_mut() exactly for
\* `*mut`, a non-pointer default only for a type that is not a pointer.
C5_DefaultMatchesDeclared ==
    (ti_declared.called /\ ti_default.called) =>
        /\ ti_default.tokens = NullTokens
             <=> OutermostPointer(ti_declared.tokens) = "const"
        /\ ti_default.tokens = NullMutTokens
             <=> OutermostPointer(ti_declared.tokens) = "mut"
        /\ ti_default.tokens \notin { NullTokens, NullMutTokens }
             <=> OutermostPointer(ti_declared.tokens) = "none"

\* SCREAMING_CASE: a '_' in front of every upper-case letter but the first
\* character, every letter kept and upper-cased.
RECURSIVE ScreamingCase(_, _)
ScreamingCase(name, first) ==
    IF name = << >> THEN << >>
    ELSE (IF is_ascii_uppercase(Head(name)) /\ ~first THEN << "_" >> ELSE << >>)
         \o << CharToUpper(Head(name)) >> \o ScreamingCase(Tail(name), FALSE)

\* C6: the default of an undecorated VkStructureType member of struct S is the
\* StructureType enumerant named SCREAMING_CASE(output name of S).
C6_StructureTypeDefault ==
    member_default.called =>
        LET struct == types.items[member_default.struct]
            member == struct.body.members[member_default.member]
            ty     == TypesGet(types, member.decor_type.handle)
        IN  (ty.head.standard_name = Str_VkStructureType /\ member.decor_type.decors = << >>)
            => member_default.result.tokens =
                 << Ident(member.output_name), Punct(":") >>
                 \o StructureTypeTokens(ScreamingCase(struct.head.output_name, TRUE))
                 \o << Punct(",") >>

IsCamelCase(name) == name # << >> /\ is_ascii_uppercase(name[1])

\* C7: screaming_name keeps every letter of a CamelCase name, upper-cased,
\* puts no '_' in front, and turns ApplicationInfo into APPLICATION_INFO.
C7_ScreamingName ==
    (ti_scream.called /\ IsCamelCase(ti_info.output_name)) =>
        /\ ti_scream.name[1] # "_"
        /\ SelectSeq(ti_scream.name, LAMBDA ch : ch # "_")
             = to_ascii_uppercase(ti_info.output_name)
        /\ ti_info.output_name = Str_ApplicationInfo
             => ti_scream.name = Str_APPLICATION_INFO

\* The handles of the types in the table whose body is of the given kind.
BodyHandles(kind) == { h \in DOMAIN types.items : types.items[h].body.kind = kind }

\* C8: a handle is in struct_types / union_types / enum_types / bitmask_types
\* iff its type's body is Struct / Union / Enum / Bitmask, and has_structs,
\* has_unions and has_enums tell whether a type of that kind was inserted.
C8_CategoryIndex ==
    /\ Range(types.struct_types) = BodyHandles("Struct")
    /\ Range(types.union_types) = BodyHandles("Union")
    /\ Range(types.enum_types) = BodyHandles("Enum")
    /\ Range(types.bitmask_types) = BodyHandles("Bitmask")
    /\ has_structs(Vk) <=> \E k \in 1..Len(inserted) : inserted[k].ty.body.kind = "Struct"
    /\ has_unions(Vk) <=> \E k \in 1..Len(inserted) : inserted[k].ty.body.kind = "Union"
    /\ has_enums(Vk) <=> \E k \in 1..Len(inserted) : inserted[k].ty.body.kind = "Enum"

\* C9: the k-th call of Types::insert returns the handle k; the handles
\* returned are nonzero and pairwise distinct, and Types::get of each gives
\* the type that call inserted.
C9_HandleAllocation ==
    /\ \A k \in 1..Len(inserted) :
         /\ inserted[k].handle = k
         /\ inserted[k].handle # NoHandle
         /\ TypesGet(types, inserted[k].handle) = inserted[k].ty
    /\ \A j, k \in 1..Len(inserted) : inserted[j].handle = inserted[k].handle => j = k

\* Several different types have been inserted and can be looked up.
C9_Witness ==
    /\ Len(inserted) >= 3
    /\ inserted[1].ty # inserted[2].ty
    /\ inserted[2].ty # inserted[3].ty
    /\ DOMAIN types.items = { inserted[k].handle : k \in 1..Len(inserted) }

\* C10: the linker runs only after the parser has consumed the whole document
\* and returned a Registry; after a parse failure it never runs and from_xml
\* returns Error::Parse with the reader's position; and the linker returns an
\* indexed Vulkan or a TransError, it never aborts.
C10_PipelineOrder ==
    /\ linker_calls # << >> =>
         /\ registry # NoNode /\ stack = << >> /\ last_event = EndDocument
         /\ ret.kind \in { "Vulkan", "Trans" }
    /\ stage = "link" => registry # NoNode /\ last_event = EndDocument
    /\ ret.kind = "Parse" => linker_calls = << >> /\ ret.pos = reader_pos
    /\ stage # "aborted"

\* ---- C11 -----------------------------------------------------------------
\* The characters of the names the documents give in a name attribute.
AsChars(name) ==
    CASE name = "VkFoo" -> Str_VkFoo
      [] name = "VkBar" -> Str_VkBar
      [] OTHER -> << >>

\* The <type> nodes of a parsed registry, the names they declare, and the
\* names the <type> children of their members refer to.
TypeNodes(reg) ==
    UNION { { reg.items[i].items[j] :
                j \in { k \in 1..Len(reg.items[i].items) :
                          reg.items[i].items[k].kind # "Comment" } } :
            i \in { k \in 1..Len(reg.items) : reg.items[k].kind = "Types" } }
DeclaredTypeNames(reg) ==
    { IF "name" \in DOMAIN t.attrs THEN AsChars(t.attrs["name"]) ELSE t.name :
        t \in TypeNodes(reg) }
MemberNodes(reg) ==
    UNION { { t.items[i] : i \in { k \in 1..Len(t.items) : t.items[k].kind = "Member" } } :
            t \in { u \in TypeNodes(reg) : u.kind \in { "StructType", "UnionType" } } }
MemberTypeRefs(reg) ==
    UNION { { m.items[i].text : i \in { k \in 1..Len(m.items) : m.items[k].item = "Type" } } :
            m \in MemberNodes(reg) }
BuiltinTypeNames == { Str_uint32_t }
DanglingNames(reg) == MemberTypeRefs(reg) \ (DeclaredTypeNames(reg) \cup BuiltinTypeNames)

\* C11: once the linker has been called on a registry in which a struct
\* member's <type> names a type that is neither declared nor built in, the
\* call has failed with TypeNotFound of such a name, and no Vulkan value has
\* been produced.
C11_DanglingReference ==
    (linker_calls # << >> /\ DanglingNames(registry) # {}) =>
        /\ ret.kind = "Trans"
        /\ \E name \in DanglingNames(registry) : ret.error = TypeNotFound(name)

\* ---- C12 -----------------------------------------------------------------
\* The <enum offset=.. extnumber=..> nodes under the <require> and <remove>
\* blocks of a parsed registry.
RequireNodes(reg) ==
    UNION { { reg.items[i].items[j] :
                j \in { k \in 1..Len(reg.items[i].items) :
                          reg.items[i].items[k].kind \in { "Require", "Remove" } } } :
            i \in { k \in 1..Len(reg.items) : reg.items[k].kind = "Feature" } }
OffsetEnums(reg) ==
    UNION { { r.items[i] : i \in { k \in 1..Len(r.items) :
                                     /\ r.items[k].kind = "RequireEnumOffset"
                                     /\ "extnumber" \in DOMAIN r.items[k].attrs } } :
            r \in RequireNodes(reg) }

\* The number an attribute of the documents spells.
Num(digits) == CASE digits = "0" -> 0 [] digits = "3" -> 3 [] digits = "4" -> 4 [] OTHER -> 0

\* base + (n - 1) * 1000 + o, negated for the direction '-'.
ExtensionValue(base, n, o, dir) ==
    IF dir = "-" THEN 0 - (base + (n - 1) * 1000 + o) ELSE base + (n - 1) * 1000 + o
ExpectedValue(e) ==
    ExtensionValue(1000000000, Num(e.attrs["extnumber"]), Num(e.attrs["offset"]),
                   IF "dir" \in DOMAIN e.attrs THEN e.attrs["dir"] ELSE "+")

\* C12: once the linker has been called on a registry with <require><enum>
\* elements that carry an offset and an extension number, it has returned a
\* Vulkan value in which each of them has the value
\* base + (extnumber - 1) * 1000 + offset, negated when dir is '-'.
C12_EnumExtensionPatch ==
    (linker_calls # << >> /\ OffsetEnums(registry) # {}) =>
        /\ ret.kind = "Vulkan"
        /\ \A e \in OffsetEnums(registry) : ExpectedValue(e) \in EnumValues(ret)

\* ---- C13 -----------------------------------------------------------------
\* The handler whose details variant a category stands for.
DetailsVariant(category) ==
    CASE category = "include"  -> "IncludeType"
      [] category = "define"   -> "DefineType"
      [] category = "basetype" -> "BaseType"
      [] category = "handle"   -> "HandleType"
      [] category = "bitmask"  -> "BitmaskType"
      [] category = "enum"     -> "EnumType"
      [] category = "funcpointer" -> "FnPtrType"
      [] category = "struct"   -> "StructType"
      [] category = "union"    -> "UnionType"

\* Type::parse has just been given the StartElement last read: the <type> is
\* a child of <types>, and either its handler is open or the parse failed.
TypeJustOpened ==
    /\ stage = "parse" /\ last_event.ev = "StartElement" /\ last_event.name = "type"
    /\ Len(stack) >= 2 /\ stack[Len(stack) - 1].kind = "Types"
TypeJustRejected ==
    /\ stage = "returned" /\ last_event.ev = "StartElement" /\ last_event.name = "type"
    /\ stack # << >> /\ Top.kind = "Types"

\* C13: the details variant of a <type> follows from its category attribute
\* alone (absent: Imported), the handler of the variant never sees the
\* category attribute, and any other category fails with
\* BadAttrib(type, category, value).
C13_TypeCategoryDispatch ==
    /\ TypeJustOpened =>
          /\ Top.kind = IF "category" \in DOMAIN last_event.attribs
                        THEN DetailsVariant(last_event.attribs["category"])
                        ELSE "ImportedType"
          /\ "category" \in DOMAIN last_event.attribs =>
                last_event.attribs["category"] \in TypeCategories
          /\ "category" \notin (DOMAIN Top.attrs \cup DOMAIN Top.unread)
    /\ TypeJustRejected =>
          /\ ret.error.kind = "BadAttrib" /\ ret.error.b = "category" =>
                /\ "category" \in DOMAIN last_event.attribs
                /\ last_event.attribs["category"] \notin TypeCategories
          /\ ("category" \in DOMAIN last_event.attribs
               /\ last_event.attribs["category"] \notin TypeCategories) =>
                ret.error = BadAttrib("type", "category", last_event.attribs["category"])
          /\ ret.error.kind = "UnreadAttrib" => ret.error.b # "category"

\* A <type category="handle" parent=..> has been dispatched to the handle
\* handler, which consumed the parent attribute.
C13_Witness ==
    /\ TypeJustOpened
    /\ "category" \in DOMAIN last_event.attribs
    /\ last_event.attribs["category"] = "handle"
    /\ Top.kind = "HandleType"
    /\ "parent" \in DOMAIN Top.attrs

\* ---- C14 -----------------------------------------------------------------
\* The elements that are part of the grammar of the element a frame is open for.
Grammar(frame) ==
    CASE frame.kind = "Registry" ->
           { "comment", "types", "feature", "sync", "commands" } \cup RegistryItemsLeftOut
      [] frame.kind = "Types" -> { "comment", "type" }
      [] frame.kind \in { "StructType", "UnionType" } -> { "comment", "member" }
      [] frame.kind \in MixedHandlers -> { "name", "type", "enum", "comment" }
      [] frame.kind = "Feature" -> { "comment", "require", "remove" }
      [] frame.kind \in { "Require", "Remove" } ->
           { "comment", "type", "enum", "command", "feature" }
      [] frame.kind = "Sync" -> { "syncaccess" } \cup SyncItemsLeftOut
      [] frame.kind = "SyncAccess" -> { "comment", "syncsupport", "syncequivalent" }
      [] frame.kind = "Commands" -> { "comment", "command" }
      [] frame.kind = "DefinedCommand" ->
           { "proto", "comment", "param" } \cup CommandItemsLeftOut
      [] OTHER -> {}

\* C14: a nested StartElement that is not part of the grammar of the element
\* being parsed fails the parse with BadChild(parent, child), parent being the
\* name of the enclosing element and child the name of the offending one; no
\* handler is opened for such a child.
C14_BadChild ==
    /\ (/\ stage = "returned" /\ ret.kind = "Parse"
        /\ last_event.ev = "StartElement" /\ stack # << >>
        /\ last_event.name \notin Grammar(Top))
         => ret.error = BadChild(Top.element, last_event.name)
    /\ (stage = "parse" /\ last_event.ev = "StartElement" /\ Len(stack) >= 2)
         => last_event.name \in Grammar(stack[Len(stack) - 1])

C16_DependsRejects ==
    (dep_result.called /\ ~GrammarOk(dep_input)) =>
        /\ ~dep_result.ok
        /\ try_get("require", "depends", dep_input) =
             [ok |-> FALSE, val |-> Feature(<< >>), error |-> "BadAttrib",
              element |-> "require", attrib |-> "depends", value |-> dep_input]

\* ---- C17 -----------------------------------------------------------------
\* #[cfg(feature = "name")]
CfgGate(name) ==
    << Punct("#"), Ident(<< "cfg" >>), Ident(<< "feature" >>), Punct("="), Lit(name) >>

\* The struct types an item written to structs.rs was emitted for.
OwnersOf(it) ==
    { h \in StructHandles(Vk) : types.items[h].head.output_name = it.name.text }

\* The gate an item of the type with handle h is to carry.
GateCovers(it, h) ==
    IF types.items[h].head.feature = NoHandle THEN it.gate = << >>
    ELSE /\ it.gate # << >>
         /\ types.items[h].head.feature \in DOMAIN features =>
              it.gate = CfgGate(features[types.items[h].head.feature].header.output_name)

ResolvedStruct(h) ==
    /\ types.items[h].body.members # << >>
    /\ IsValidIdent(types.items[h].head.output_name)
    /\ \A i \in 1..Len(types.items[h].body.members) :
          /\ IsValidIdent(types.items[h].body.members[i].output_name)
          /\ types.items[h].body.members[i].decor_type.handle \in DOMAIN types.items
          /\ IsValidIdent(TypesGet(types,
                 types.items[h].body.members[i].decor_type.handle).head.output_name)

\* A struct definition directly followed by the Default impl of the same name.
StructThenDefault(written, i) ==
    /\ written[i].item = "struct" /\ written[i].name.tok = "ident"
    /\ written[i + 1].item = "impl_default"
    /\ written[i + 1].name = Ident(written[i].name.text)

\* C18: when every struct of the type table has members whose type handles
\* resolve and whose names are valid identifiers, emit succeeds and
\* structs.rs holds, for each struct, its `#[repr(C)] pub struct` followed by
\* its Default implementation.
C18_SyntacticValidity ==
    \A k \in 1..Len(runs) :
        (StructHandles(Vk) # {} /\ \A h \in StructHandles(Vk) : ResolvedStruct(h)) =>
            /\ runs[k].result = "Ok"
            /\ Len(runs[k].files["structs.rs"]) = 2 * Cardinality(StructHandles(Vk))
            /\ \A i \in 1..Cardinality(StructHandles(Vk)) :
                  StructThenDefault(runs[k].files["structs.rs"], 2 * i - 1)

\* ---- C19 -----------------------------------------------------------------
\* The fixed order of the submodules, and whether one is present.
FixedOrder == << "commands", "enums", "result", "structs", "unions" >>
Present(name) ==
    CASE name = "commands" -> has_commands(Vk)
      [] name = "enums"    -> has_enums(Vk)
      [] name = "result"   -> has_result(Vk)
      [] name = "structs"  -> has_structs(Vk)
      [] name = "unions"   -> has_unions(Vk)
Place(token) == CHOOSE i \in 1..Len(FixedOrder) : token = Ident(<< FixedOrder[i] >>)

\* Where `mod NAME;` stands in a root module, and where `NAME::*` stands in
\* the braces of a re-export.
Declarations(root, name) ==
    { i \in 1..Len(root) : root[i].item = "mod" /\ root[i].name = Ident(<< name >>) }
GlobExports(use, name) ==
    { j \in 1..(Len(use.body) - 2) :
        /\ use.body[j] = Ident(<< name >>)
        /\ use.body[j + 1] = Punct("::") /\ use.body[j + 2] = Punct("*") }
ReExports(root, name) ==
    UNION { { << i, j >> : j \in GlobExports(root[i], name) } :
            i \in { k \in 1..Len(root) : root[k].item = "use" } }

\* The idents of a token list stand in the fixed order.
InFixedOrder(tokens) ==
    \A i, j \in { k \in 1..Len(tokens) : tokens[k].tok = "ident" } :
        i < j => Place(tokens[i]) < Place(tokens[j])

RootModuleOk(root) ==
    /\ \A n \in 1..Len(FixedOrder) :
          /\ Cardinality(Declarations(root, FixedOrder[n])) = IF Present(FixedOrder[n]) THEN 1 ELSE 0
          /\ Cardinality(ReExports(root, FixedOrder[n])) = IF Present(FixedOrder[n]) THEN 1 ELSE 0
    /\ \A i \in 1..Len(root) :
          /\ root[i].item \in { "mod", "use" }
          /\ root[i].item = "mod" => root[i].name \in { Ident(<< FixedOrder[n] >>) : n \in 1..Len(FixedOrder) }
          /\ root[i].item = "use" => InFixedOrder(root[i].body)
    /\ InFixedOrder([i \in 1..Len(root) |->
                       IF root[i].item = "mod" THEN root[i].name ELSE Punct(";")])

\* C19: the root module written by emit declares the present submodules in
\* the order commands, enums, result, structs, unions, with one `mod NAME;`
\* and one glob re-export of NAME for each, and neither for an absent one.
C19_RootModule ==
    \A k \in 1..Len(runs) : RootModuleOk(runs[k].files["mod.rs"])

\* emit has run on a value with a result type, structs and commands.
C19_Witness ==
    /\ runs # << >>
    /\ has_result(Vk) /\ has_structs(Vk) /\ has_commands(Vk)
    /\ Len(runs[1].files["mod.rs"]) = 4

\* ---- C20 -----------------------------------------------------------------
\* The file each emit_*_module creates for its submodule.
SubmoduleFile(name) ==
    CASE name = "commands" -> "cmds.rs"
      [] name = "enums"    -> "enums.rs"
      [] name = "result"   -> "result.rs"
      [] name = "structs"  -> "structs.rs"
      [] name = "unions"   -> "unions.rs"

\* C20: after a successful emit, the file of each of the submodules structs,
\* unions, enums, commands and result has been created iff the has_* flag of
\* the Vulkan value is true, and no other file but mod.rs has been created.
C20_FilesFollowFlags ==
    \A k \in 1..Len(runs) :
        runs[k].result = "Ok" =>
            /\ \A n \in 1..Len(FixedOrder) :
                  SubmoduleFile(FixedOrder[n]) \in DOMAIN runs[k].files
                      <=> Present(FixedOrder[n])
            /\ DOMAIN runs[k].files \subseteq
                  { "mod.rs" } \cup { SubmoduleFile(FixedOrder[n]) : n \in 1..Len(FixedOrder) }

\* emit has succeeded on a value with commands, enums and a result type and
\* without structs and unions.
C20_Witness ==
    /\ runs # << >> /\ runs[1].result = "Ok"
    /\ has_commands(Vk) /\ has_enums(Vk) /\ has_result(Vk)
    /\ ~has_structs(Vk) /\ ~has_unions(Vk)
    /\ DOMAIN runs[1].files = { "mod.rs", "cmds.rs", "enums.rs", "result.rs" }

\* ---- C21 -----------------------------------------------------------------
\* <registry><comment>x</comment></registry>
CommentOnlyDoc == RegistryDoc(TextElem("comment", << "x" >>))

\* The Vulkan value with nothing in it, which is all a registry without
\* types, features and commands can be linked to.
NothingDeclared == [types |-> EmptyTypes, features |-> << >>, commands |-> << >>]

\* C21: once from_xml is over for a registry whose only child is a <comment>,
\* it has returned a Vulkan value, and emitting the value that declares
\* nothing succeeds and creates no file in the output directory.
C21_CommentOnly ==
    (document = CommentOnlyDoc /\ stage \in { "returned", "aborted" }) =>
        /\ ret.kind = "Vulkan"
        /\ emit(NothingDeclared, << >>).result = "Ok"
        /\ DOMAIN emit(NothingDeclared, << >>).files = {}

\* ---- C22 -----------------------------------------------------------------
\* C22: after any sequence of Types::insert calls, result_type is Some iff a
\* type with the standard name VkResult has been inserted, and then it is the
\* handle of an entry of the type table whose standard name is VkResult.
C22_ResultType ==
    /\ types.result_type # NoHandle <=>
          \E i \in 1..Len(inserted) : inserted[i].ty.head.standard_name = Str_VkResult
    /\ types.result_type # NoHandle =>
          /\ types.result_type \in DOMAIN types.items
          /\ types.items[types.result_type].head.standard_name = Str_VkResult

\* VkResult has been inserted as the second type.
C22_Witness ==
    /\ Len(inserted) >= 2
    /\ inserted[1].ty.head.standard_name # Str_VkResult
    /\ inserted[2].ty.head.standard_name = Str_VkResult
    /\ types.result_type = 2

\* ---- C23 -----------------------------------------------------------------
\* The members of the struct with handle h whose output name is no identifier.
MalformedMembers(h) ==
    { i \in 1..Len(types.items[h].body.members) :
        ~IsValidIdent(types.items[h].body.members[i].output_name) }

\* C23: when the only struct of the type table has a member whose output
\* name is not a well-formed identifier, emit does not abort and returns
\* EmitError::BadStructMember(struct standard name, member standard name).
C23_MalformedIdentifier ==
    \A k \in 1..Len(runs) :
        \A h \in StructHandles(Vk) :
            (StructHandles(Vk) = { h } /\ MalformedMembers(h) # {}) =>
                /\ runs[k].result = "Err"
                /\ \E i \in MalformedMembers(h) :
                      runs[k].err = BadStructMember(types.items[h].head.standard_name,
                                        types.items[h].body.members[i].standard_name)

\* ---- C24 -----------------------------------------------------------------
\* The handlers of <member>, <proto> and <param>, and the kind of item a
\* child element of theirs becomes.
MixedContent == { "Member", "CommandProto", "CommandParam" }
ItemKind(element) ==
    CASE element = "name" -> "Name" [] element = "type" -> "Type"
      [] element = "enum" -> "Enum" [] element = "comment" -> "Comment"

\* The items of the frame at depth d after a step, given what the step read:
\* a text run read by the frame itself adds one Text item with that text, a
\* child that closes adds the child as it stood, nothing else changes them.
ItemsAfterStep(d) ==
    IF d = Len(stack) /\ reader_pos' = reader_pos + 1 /\ last_event'.ev = "Characters"
       /\ stage' = "parse"
    THEN Append(stack[d].items, TextItem(last_event'.text))
    ELSE IF Len(stack) = d + 1 /\ Len(stack') = d
    THEN Append(stack[d].items, stack[d + 1])
    ELSE stack[d].items

\* C24: the items of a <member>, <proto> and <param> are the text runs and
\* the name, type, enum and comment children in the order the events were
\* read: every step adds the one item of the event it read, with its kind
\* and its whole text, and no step drops, merges or reorders items; the node
\* handed to the parent when the element closes holds these items.
C24_MixedContent ==
    [][ \A d \in 1..Len(stack) :
          /\ (stack[d].kind \in MixedContent /\ Len(stack') >= d) =>
                /\ stack'[d].kind = stack[d].kind
                /\ stack'[d].items = ItemsAfterStep(d)
          /\ (stack[d].kind \in MixedContent /\ Len(stack') < d) =>
                /\ d = Len(stack) /\ Len(stack') = d - 1 /\ d > 1
                /\ IF stack[d].kind = "CommandProto"
                   THEN stack'[d - 1].proto = << stack[d] >>
                   ELSE stack'[d - 1].items = Append(stack[d - 1].items, stack[d])
          /\ (d > 1 /\ stack[d - 1].kind \in MixedContent) =>
                /\ stack[d].kind = "GenericItem"
                /\ stack[d].item = ItemKind(stack[d].element)
                /\ (Len(stack') >= d /\ stage' = "parse") =>
                      stack'[d].text =
                          IF reader_pos' = reader_pos + 1 /\ last_event'.ev = "Characters"
                          THEN stack[d].text \o last_event'.text
                          ELSE stack[d].text ]_vars

\* A <param> is open whose items so far are a text run, a type, a text run
\* and a name, as read.
C24_Witness ==
    /\ stack # << >> /\ Top.kind = "CommandParam"
    /\ Len(Top.items) = 4
    /\ [i \in 1..4 |-> Top.items[i].item] = << "Text", "Type", "Text", "Name" >>
    /\ [i \in 1..4 |-> Top.items[i].text] = << << "c" >>, Str_VkFoo, << "*" >>, << "x" >> >>

\* ---- C25 -----------------------------------------------------------------
\* C25: when create_registry is over, it has failed with EmptyReg if the
\* reader reported the end of the document outside every element and no
\* registry element had been parsed, and it has not handed a registry without items to the linker: the
\* document that is an empty registry element ends in the EmptyReg error.
C25_EmptyRegistry ==
    /\ (stage # "parse" /\ registry = NoNode /\ stack = << >>
          /\ last_event = EndDocument) =>
          ret = [kind |-> "Parse", pos |-> reader_pos, error |-> EmptyReg]
    /\ stage = "link" => registry.items # << >>
    /\ (document = EmptyRegistryDoc /\ stage # "parse") =>
          (ret.kind = "Parse" /\ ret.error = EmptyReg)

LenText(l) == IF l.len = "NullTerminated" THEN "null-terminated" ELSE l.a
LenParts(field) ==
    IF Len(field.val) = 1 /\ field.val[1].len = "Alt"
    THEN SplitList(field.val[1].a)
    ELSE [i \in 1..Len(field.val) |-> LenText(field.val[i])]
HasAltLen(field, alt) ==
    field.some /\ \E i \in 1..Len(field.val) : field.val[i].len = "Alt" /\ field.val[i].b = alt

\* C27: in every <member> and <param> being parsed, the len field holds the
\* text of the altlen attribute whenever the element has one, with or
\* without a len attribute, and the comma-separated parts of the len
\* attribute in order whenever the element has one.
C27_LenPreserved ==
    \A d \in 1..Len(stack) :
        stack[d].kind \in { "Member", "CommandParam" } =>
            /\ "altlen" \in DOMAIN stack[d].attrs =>
                  HasAltLen(stack[d].fields.len, stack[d].attrs["altlen"])
            /\ "len" \in DOMAIN stack[d].attrs =>
                  /\ stack[d].fields.len.some
                  /\ LenParts(stack[d].fields.len) = SplitList(stack[d].attrs["len"])

\* ---- C28 -----------------------------------------------------------------
\* The file rustc reads for `mod NAME;` in mod.rs: NAME.rs beside it.
ModuleFile(name) ==
    CASE name = "commands" -> "commands.rs"
      [] name = "enums"    -> "enums.rs"
      [] name = "result"   -> "result.rs"
      [] name = "structs"  -> "structs.rs"
      [] name = "unions"   -> "unions.rs"
DeclaredModules(root) ==
    { root[i].name.text[1] : i \in { j \in 1..Len(root) : root[j].item = "mod" } }

\* C28: after a successful emit, the file NAME.rs of every submodule that
\* mod.rs declares with `mod NAME;` has been written by that emit, and every
\* file written besides mod.rs is NAME.rs of a declared submodule.
C28_ModulesMatchFiles ==
    \A k \in 1..Len(runs) :
        runs[k].result = "Ok" =>
            DOMAIN runs[k].files \ { "mod.rs" } =
                { ModuleFile(name) : name \in DeclaredModules(runs[k].files["mod.rs"]) }

\* ---- C29 -----------------------------------------------------------------
\* C29: in every defined <command> being parsed, queues is the split value
\* of the queues attribute and cmd_buffer_level that of the cmdbufferlevel
\* attribute, each None when its attribute is absent, whatever the other
\* attribute is.
C29_CommandListFields ==
    \A d \in 1..Len(stack) :
        stack[d].kind = "DefinedCommand" =>
            /\ stack[d].fields.queues = SplitAttrib(stack[d].attrs, "queues")
            /\ stack[d].fields.cmd_buffer_level =
                   SplitAttrib(stack[d].attrs, "cmdbufferlevel")

\* ---- C30 -----------------------------------------------------------------
\* The deliveries that took the arm that frees the box.
Frees == { i \in 1..Len(delivered) : delivered[i].arm = "destroy" }

====
